---- MODULE Spec2Model ----
(***************************************************************************)
(* A model of nutrition_app.py: the response validation of                 *)
(* generate_medical_condition_diet, the nutrition arithmetic of            *)
(* calculate_daily_calories, and the coverage computation of               *)
(* generate_comprehensive_meal_plan.                                       *)
(*                                                                         *)
(* JSON values, as json.loads produces them, are records of one shape:     *)
(*   t     the Python type: "object", "list", "str", "int", "float",       *)
(*         "bool", "null"                                                  *)
(*   n     the number of an int, float or bool (calories, grams)           *)
(*   s     the text of a str                                               *)
(*   elems the elements of a list                                          *)
(*   obj   the key -> value map of an object                               *)
(***************************************************************************)
EXTENDS Integers, Sequences, FiniteSets, TLC

VARIABLES
    response,               \* what the collaborator did on the last call
    result,                 \* what generate_medical_condition_diet returned
    handler,                \* the except clause that ran, and its reason
    calc,                   \* last call of calculate_daily_calories: inputs and value
    profile,                \* the row of user_profiles.csv of the session's user
    profile_completed,      \* st.session_state.profile_completed
    current_meal_plan,      \* st.session_state.current_meal_plan
    generated_meal_count,   \* st.session_state.generated_meal_count
    pc,                     \* the last operation that ran
    collaborator,           \* the replies the collaborator gives, call after call
    collaborator_calls,     \* the calls of generate_content the operation made
    alternatives,           \* what get_food_alternatives returned
    prompt,                 \* the conditions passed and the prompt's section on them
    bmi,                    \* last call of calculate_bmi: inputs, value, report
    bmi_category,           \* last call of get_bmi_category: its input and its label
    meal_targets,           \* the four rounded targets last computed for a daily target
    USER_DB_FILE,           \* users.csv: the row of each registered user
    USER_PROFILE_FILE,      \* user_profiles.csv: the row of each user with a profile
    MEAL_HISTORY_FILE,      \* meal_history.csv: the feedback rows, in file order
    MEDICAL_CONDITIONS,     \* the module's table of medical conditions
    threads,                \* each session's script thread: position and data frame
    session_state,          \* st.session_state of a session on the login page
    audit,                  \* the session's last operation and what it has done so far
    resets                  \* per user: a password reset was asked for, and its steps done

vars == <<response, result, handler, calc, profile, profile_completed,
          current_meal_plan, generated_meal_count, pc,
          collaborator, collaborator_calls, alternatives, prompt, bmi, bmi_category, meal_targets,
          USER_DB_FILE, USER_PROFILE_FILE, MEAL_HISTORY_FILE, MEDICAL_CONDITIONS,
          threads, session_state, audit, resets>>

\* What the sessions of one process share, and their threads.
files  == <<USER_DB_FILE, USER_PROFILE_FILE, MEAL_HISTORY_FILE>>
shared == <<files, MEDICAL_CONDITIONS, threads, resets>>

\* What the operations on a reply's text use.
text_vars == <<collaborator, collaborator_calls, alternatives, prompt>>

\* The login page's session and the record of what it did.
auth_vars == <<session_state, audit>>

\* What the specifications written before these variables leave alone.
aux == <<text_vars, bmi, bmi_category, meal_targets, auth_vars, shared>>

session == <<profile, profile_completed, current_meal_plan, generated_meal_count>>

(***************************************************************************)
(* JSON values                                                             *)
(***************************************************************************)
NoObj == [k \in {} |-> 0]

Leaf(t, n, s) == [t |-> t, n |-> n, s |-> s, elems |-> <<>>, obj |-> NoObj]
Null       == Leaf("null", 0, "")
IntV(n)    == Leaf("int", n, "")
FloatV(n)  == Leaf("float", n, "")
StrV(s)    == Leaf("str", 0, s)
BoolV(b)   == Leaf("bool", IF b THEN 1 ELSE 0, "")
ListV(es)  == [t |-> "list", n |-> 0, s |-> "", elems |-> es, obj |-> NoObj]
ObjV(f)    == [t |-> "object", n |-> 0, s |-> "", elems |-> <<>>, obj |-> f]

required_meals  == <<"breakfast", "lunch", "dinner", "snacks">>
meal_fields     == <<"items", "total_calories", "meal_benefits">>
required_fields == <<"food", "quantity", "calories", "protein", "carbs", "fats",
                     "fiber", "benefits">>
numeric_fields  == <<"calories", "protein", "carbs", "fats", "fiber">>
summary_fields  == <<"total_calories", "total_protein", "total_carbs", "total_fats",
                     "total_fiber", "medical_compliance">>
summary_numeric == <<"total_calories", "total_protein", "total_carbs", "total_fats",
                     "total_fiber">>

Range(seq) == {seq[i] : i \in DOMAIN seq}

\* The texts that float() accepts, with the number each denotes.
NumericText == [s \in {"150"} |-> 150]

\* A text that holds every key name as a substring.
AllKeysText == "breakfast lunch dinner snacks items total_calories meal_benefits"

\* Python's  sub in text  for the texts of the model.
StrContains(text, sub) ==
    \/ text = sub
    \/ /\ text = AllKeysText
       /\ sub \in Range(required_meals) \cup Range(meal_fields)

(***************************************************************************)
(* Python's operations on a json.loads value.  An operation that can raise *)
(* gives a record whose exc names the exception ("" when none).            *)
(***************************************************************************)
Ok(v)          == [exc |-> "", msg |-> "", names |-> {}, val |-> v]
Raise(e, m, N) == [exc |-> e, msg |-> m, names |-> N, val |-> Null]

\* key in v
PyIn(key, v) ==
    CASE v.t = "object" -> key \in DOMAIN v.obj
      [] v.t = "list"   -> \E i \in DOMAIN v.elems :
                               v.elems[i].t = "str" /\ v.elems[i].s = key
      [] v.t = "str"    -> StrContains(v.s, key)
      [] OTHER          -> FALSE

\* all(key in v for key in keys): a TypeError when v is no container.
PyAllIn(keys, v) ==
    IF v.t \in {"object", "list", "str"}
    THEN Ok(BoolV(\A i \in DOMAIN keys : PyIn(keys[i], v)))
    ELSE Raise("TypeError", "not iterable", {})

\* v[key] for a text key
PyGet(v, key) ==
    IF v.t # "object" THEN Raise("TypeError", "indices must be integers", {})
    ELSE IF key \notin DOMAIN v.obj THEN Raise("KeyError", key, {})
    ELSE Ok(v.obj[key])

\* float(v)
PyFloat(v) ==
    CASE v.t \in {"int", "float", "bool"} -> Ok(FloatV(v.n))
      [] v.t = "str" -> IF v.s \in DOMAIN NumericText
                        THEN Ok(FloatV(NumericText[v.s]))
                        ELSE Raise("ValueError", "could not convert string to float", {})
      [] OTHER -> Raise("TypeError", "float() argument must be a string or a number", {})

\* bool(v)
PyTruthy(v) ==
    CASE v.t = "null"   -> FALSE
      [] v.t \in {"int", "float", "bool"} -> v.n # 0
      [] v.t = "str"    -> v.s # ""
      [] v.t = "list"   -> v.elems # <<>>
      [] v.t = "object" -> DOMAIN v.obj # {}
      [] OTHER          -> FALSE

\* for x in v: the values the loop visits.  A text yields its characters
\* (one stands for all: none holds a key name), an object its keys.
PyIter(v) ==
    CASE v.t = "list"   -> Ok(ListV(v.elems))
      [] v.t = "str"    -> Ok(ListV(IF v.s = "" THEN <<>> ELSE <<StrV("c")>>))
      [] v.t = "object" -> Ok(ListV(IF DOMAIN v.obj = {} THEN <<>>
                                    ELSE <<StrV(CHOOSE k \in DOMAIN v.obj : TRUE)>>))
      [] OTHER          -> Raise("TypeError", "object is not iterable", {})

\* d[key] = v on an object
PySet(d, key, v) ==
    ObjV([k \in DOMAIN d.obj \cup {key} |-> IF k = key THEN v ELSE d.obj[k]])

(***************************************************************************)
(* generate_medical_condition_diet: validation of the parsed response.     *)
(* Each statement that can raise is an operator of its own, which takes    *)
(* the statement's outcome r and goes on with the next statement.          *)
(***************************************************************************)
Failed(r) == r.exc # ""

\* float(r), once a lookup gave r
FloatOf(r) == IF Failed(r) THEN r ELSE PyFloat(r.val)

RECURSIVE FloatFields(_, _, _)
RECURSIVE FloatStep(_, _, _, _)
\* d[f] = float(d[f]) for the fields f, in order; the first failure ends it.
FloatFields(d, fields, i) ==
    IF i > Len(fields) THEN Ok(d)
    ELSE FloatStep(FloatOf(PyGet(d, fields[i])), d, fields, i)
FloatStep(r, d, fields, i) ==
    IF Failed(r) THEN r
    ELSE FloatFields(PySet(d, fields[i], r.val), fields, i + 1)

DefaultItemBenefits == StrV("General nutritional benefits.")
DefaultMealBenefits(meal_name) ==
    StrV("A balanced " \o meal_name \o " for your dietary needs.")
DefaultCompliance == StrV("This plan aligns with your general dietary goals.")

\* DefaultIfEmpty without its assignment: an empty value stays.
DefaultIfEmpty_never(d, key, dflt) ==
    IF key \notin DOMAIN d.obj THEN Raise("KeyError", key, {}) ELSE Ok(d)

\* if not d[key]: d[key] = dflt
DefaultIfEmpty(d, key, dflt) ==
    IF key \notin DOMAIN d.obj THEN Raise("KeyError", key, {})
    ELSE IF PyTruthy(d.obj[key]) THEN Ok(d)
    ELSE Ok(PySet(d, key, dflt))

\* ItemBenefits without the default: the item is left as converted.
ItemBenefits_keep(r) == r

\* The item's benefits, once its numbers are converted.
ItemBenefits(r) ==
    IF Failed(r) THEN r
    ELSE DefaultIfEmpty(r.val, "benefits", DefaultItemBenefits)

\* ItemConvert that lets an item with missing fields through unchanged
\* instead of raising.
ItemConvert_lenient(r, item, meal_name) ==
    IF Failed(r) THEN r
    ELSE IF r.val.n = 0 THEN Ok(item)
    ELSE IF item.t # "object"
    THEN Raise("TypeError", "indices must be integers", {})
    ELSE ItemBenefits(FloatFields(item, numeric_fields, 1))

\* The item's conversions, once the presence test r is made.
ItemConvert(r, item, meal_name) ==
    IF Failed(r) THEN r
    ELSE IF r.val.n = 0
    THEN Raise("ValueError", "Missing fields in food item",
               {meal_name} \cup Range(required_fields))
    ELSE IF item.t # "object"
    THEN Raise("TypeError", "indices must be integers", {})
    ELSE ItemBenefits(FloatFields(item, numeric_fields, 1))

\* The body of  for item in meal["items"]  for one item.
ValidateItem(item, meal_name) ==
    ItemConvert(PyAllIn(required_fields, item), item, meal_name)

RECURSIVE ValidateItems(_, _, _)
RECURSIVE ItemsStep(_, _, _, _)
\* The loop over the items, from the i-th on; val is the list as the loop leaves it.
ValidateItems(elems, i, meal_name) ==
    IF i > Len(elems) THEN Ok(ListV(elems))
    ELSE ItemsStep(ValidateItem(elems[i], meal_name), elems, i, meal_name)
ItemsStep(r, elems, i, meal_name) ==
    IF Failed(r) THEN r
    ELSE ValidateItems([elems EXCEPT ![i] = r.val], i + 1, meal_name)

\* The meal's meal_benefits, once the loop over its items has ended with r.
\* The loop changed the items in place: a list holds the changed items.
MealBenefits(r, meal, meal_name) ==
    IF Failed(r) THEN r
    ELSE DefaultIfEmpty(IF meal.obj["items"].t = "list"
                        THEN PySet(meal, "items", r.val) ELSE meal,
                        "meal_benefits", DefaultMealBenefits(meal_name))

\* The loop over the meal's items, once  iter(meal["items"])  gave r.
MealItems(r, meal, meal_name) ==
    IF Failed(r) THEN r
    ELSE MealBenefits(ValidateItems(r.val.elems, 1, meal_name), meal, meal_name)

\* for item in meal["items"], once the lookup gave r
IterOf(r) == IF Failed(r) THEN r ELSE PyIter(r.val)

\* MealTotal with the total derived again: a total that differs from the sum
\* of the calories of the meal's items is refused.
MealTotal_rederived(r, meal, meal_name) ==
    LET items == IF meal.t = "object" THEN meal.obj["items"] ELSE Null
        known == /\ items.t = "list"
                 /\ \A i \in DOMAIN items.elems :
                       /\ items.elems[i].t = "object"
                       /\ "calories" \in DOMAIN items.elems[i].obj
                       /\ ~Failed(PyFloat(items.elems[i].obj["calories"]))
        RECURSIVE Sum(_)
        Sum(i) == IF i = 0 THEN 0
                  ELSE Sum(i - 1) + PyFloat(items.elems[i].obj["calories"]).val.n
    IN  IF Failed(r) THEN r
        ELSE IF known /\ r.val.n # Sum(Len(items.elems))
        THEN Raise("ValueError", "total_calories is not the sum of the items", {})
        ELSE MealItems(IterOf(PyGet(meal, "items")),
                       PySet(meal, "total_calories", r.val), meal_name)

\* meal["total_calories"] = float(...), once the conversion gave r.
MealTotal(r, meal, meal_name) ==
    IF Failed(r) THEN r
    ELSE MealItems(IterOf(PyGet(meal, "items")),
                   PySet(meal, "total_calories", r.val), meal_name)

\* float(meal["total_calories"]), once the lookup gave r.
MealTotalFloat(r, meal, meal_name) ==
    IF Failed(r) THEN r ELSE MealTotal(PyFloat(r.val), meal, meal_name)

\* The meal's statements, once the presence test r is made.
MealConvert(r, meal, meal_name) ==
    IF Failed(r) THEN r
    ELSE IF r.val.n = 0
    THEN Raise("ValueError", "Missing required fields in meal",
               {meal_name} \cup Range(meal_fields))
    ELSE MealTotalFloat(PyGet(meal, "total_calories"), meal, meal_name)

\* The body of  for meal_name in required_meals  for one meal.
ValidateMeal(meal, meal_name) ==
    MealConvert(PyAllIn(meal_fields, meal), meal, meal_name)

RECURSIVE ValidateMeals(_, _)
RECURSIVE MealsStep(_, _, _)
RECURSIVE MealsLookup(_, _, _)
\* The loop over required_meals, from the i-th on.
ValidateMeals(meal_plan, i) ==
    IF i > Len(required_meals) THEN Ok(meal_plan)
    ELSE MealsLookup(PyGet(meal_plan, required_meals[i]), meal_plan, i)
MealsLookup(r, meal_plan, i) ==
    IF Failed(r) THEN r
    ELSE MealsStep(ValidateMeal(r.val, required_meals[i]), meal_plan, i)
MealsStep(r, meal_plan, i) ==
    IF Failed(r) THEN r
    ELSE ValidateMeals(PySet(meal_plan, required_meals[i], r.val), i + 1)

\* return meal_plan, whose daily_summary is the one the statements above changed
ReturnPlan(r, meal_plan) ==
    IF Failed(r) THEN r ELSE Ok(PySet(meal_plan, "daily_summary", r.val))

\* The summary's medical_compliance, once its numbers are converted.
SummaryCompliance(r, meal_plan) ==
    IF Failed(r) THEN r
    ELSE ReturnPlan(DefaultIfEmpty(r.val, "medical_compliance", DefaultCompliance),
                    meal_plan)

\* The summary's conversions, once the presence test r is made.
SummaryConvert(r, daily_summary, meal_plan) ==
    IF Failed(r) THEN r
    ELSE IF r.val.n = 0
    THEN Raise("ValueError", "Missing required fields in daily_summary",
               {"daily_summary"})
    ELSE IF daily_summary.t # "object"
    THEN Raise("TypeError", "indices must be integers", {})
    ELSE SummaryCompliance(FloatFields(daily_summary, summary_numeric, 1), meal_plan)

\* The checks of daily_summary == meal_plan.get('daily_summary').
SummaryCheck(daily_summary, meal_plan) ==
    IF ~PyTruthy(daily_summary)
    THEN Raise("ValueError", "Missing daily_summary in AI response", {"daily_summary"})
    ELSE SummaryConvert(PyAllIn(summary_fields, daily_summary), daily_summary, meal_plan)

\* The daily_summary part, once the loop over the meals has ended with r.
ValidateSummary(r) ==
    IF Failed(r) THEN r
    ELSE SummaryCheck(IF "daily_summary" \in DOMAIN r.val.obj
                      THEN r.val.obj["daily_summary"] ELSE Null,
                      r.val)

\* PlanMeals without the test for the four meal keys.
PlanMeals_unchecked(r, meal_plan) ==
    IF Failed(r) THEN r ELSE ValidateSummary(ValidateMeals(meal_plan, 1))

\* The loop over the meals, once the test for the four meal keys gave r.
PlanMeals(r, meal_plan) ==
    IF Failed(r) THEN r
    ELSE IF r.val.n = 0
    THEN Raise("ValueError", "Missing required meal types in AI response", {})
    ELSE ValidateSummary(ValidateMeals(meal_plan, 1))

\* Everything after json.loads.
ValidatePlan(meal_plan) ==
    PlanMeals(PyAllIn(required_meals, meal_plan), meal_plan)

\* The collaborator's part of a call: it raises, or it answers with a text that
\* json.loads rejects, or with the text of the JSON value val.
Raises       == [kind |-> "raise", val |-> Null, defects |-> {}]
Malformed    == [kind |-> "malformed", val |-> Null, defects |-> {}]
JsonText(v)  == [kind |-> "json", val |-> v, defects |-> {}]

NoCall       == [kind |-> "none", val |-> Null, defects |-> {}]

NoHandler == [clause |-> "", msg |-> "", names |-> {}]

\* The except clauses: what the call returns once the try block ended with r.
\* ret is the value returned (Null is None), handler the clause that ran.
Handlers(r) ==
    IF ~Failed(r) THEN [ret |-> r.val, handler |-> NoHandler]
    ELSE [ret |-> Null,
          handler |-> [clause |-> IF r.exc \in {"JSONDecodeError", "ValueError"}
                                  THEN r.exc ELSE "Exception",
                       msg |-> r.msg, names |-> r.names]]

\* The try block.
TryBlock(resp) ==
    IF resp.kind = "raise" THEN Raise("APIError", "collaborator", {})
    ELSE IF resp.kind = "malformed" THEN Raise("JSONDecodeError", "parse", {})
    ELSE ValidatePlan(resp.val)

generate_medical_condition_diet(resp) == Handlers(TryBlock(resp))

(***************************************************************************)
(* The responses the collaborator is let to give: the well-formed plan of  *)
(* the prompt's example with up to MaxDefects places changed (a key        *)
(* removed, or its value replaced by one of BadValues), the replies that   *)
(* are no object at all, a text that does not parse, and a failed call.    *)
(***************************************************************************)
MaxDefects   == 2
ItemsPerMeal == 1

BadValues == << IntV(-5), StrV("N/A"), StrV(""), Null, ListV(<<>>), StrV("150") >>

MealIndex(m) == CHOOSE i \in DOMAIN required_meals : required_meals[i] = m

TemplateItem(m, i) ==
    [f \in Range(required_fields) |->
        CASE f = "food"     -> StrV("oats")
          [] f = "quantity" -> StrV("100g")
          [] f = "calories" -> FloatV(100 * MealIndex(m) + i)
          [] f = "protein"  -> IntV(10 + i)
          [] f = "carbs"    -> FloatV(15)
          [] f = "fats"     -> FloatV(5)
          [] f = "fiber"    -> IntV(3)
          [] OTHER          -> StrV("Why this food helps")]

TemplateMealField(m, f) ==
    CASE f = "total_calories" -> IntV(100 * MealIndex(m) + 1)
      [] OTHER                -> StrV("Overall benefits of this meal")

TemplateSummaryField(f) ==
    CASE f = "total_calories"     -> FloatV(1004)
      [] f = "total_protein"      -> IntV(44)
      [] f = "medical_compliance" -> StrV("How this plan addresses the conditions")
      [] OTHER                    -> FloatV(20)

NoDefect == [lvl |-> "none", meal |-> "", idx |-> 0, field |-> "", mut |-> 0]

\* mut 0 removes the key; mut k > 0 replaces its value by BadValues[k].
Defects ==
    [lvl : {"top"}, meal : Range(required_meals) \cup {"daily_summary"},
          idx : {0}, field : {""}, mut : 0 .. Len(BadValues)]
    \cup [lvl : {"meal"}, meal : Range(required_meals), idx : {0},
          field : Range(meal_fields), mut : 0 .. Len(BadValues)]
    \cup [lvl : {"item"}, meal : Range(required_meals), idx : 1 .. ItemsPerMeal,
          field : Range(required_fields), mut : 0 .. Len(BadValues)]
    \cup [lvl : {"summary"}, meal : {"daily_summary"}, idx : {0},
          field : Range(summary_fields), mut : 0 .. Len(BadValues)]

At(D, lvl, m, i, f) == {d \in D : d.lvl = lvl /\ d.meal = m /\ d.idx = i /\ d.field = f}
Removed(D, lvl, m, i, f) == \E d \in At(D, lvl, m, i, f) : d.mut = 0
\* The value at a place: the defect's when one names the place, else dflt.
Slot(D, lvl, m, i, f, dflt) ==
    IF At(D, lvl, m, i, f) = {} THEN dflt
    ELSE BadValues[(CHOOSE d \in At(D, lvl, m, i, f) : TRUE).mut]

ItemOf(D, m, i) ==
    ObjV([f \in {g \in Range(required_fields) : ~Removed(D, "item", m, i, g)} |->
            Slot(D, "item", m, i, f, TemplateItem(m, i)[f])])

MealOf(D, m) ==
    ObjV([f \in {g \in Range(meal_fields) : ~Removed(D, "meal", m, 0, g)} |->
            Slot(D, "meal", m, 0, f,
                 IF f = "items" THEN ListV([i \in 1 .. ItemsPerMeal |-> ItemOf(D, m, i)])
                 ELSE TemplateMealField(m, f))])

SummaryOf(D) ==
    ObjV([f \in {g \in Range(summary_fields) : ~Removed(D, "summary", "daily_summary", 0, g)} |->
            Slot(D, "summary", "daily_summary", 0, f, TemplateSummaryField(f))])

PlanOf(D) ==
    ObjV([k \in {g \in Range(required_meals) \cup {"daily_summary"} :
                    ~Removed(D, "top", g, 0, "")} |->
            Slot(D, "top", k, 0, "",
                 IF k = "daily_summary" THEN SummaryOf(D) ELSE MealOf(D, k))])

\* The reply with the defects D; defects records where it departs from the
\* well-formed plan.
PlanReply(D) == [kind |-> "json", val |-> PlanOf(D), defects |-> D]

\* No two defects of one response name the same place.
Consistent(D) ==
    \A d, e \in D : (d.lvl = e.lvl /\ d.meal = e.meal /\ d.idx = e.idx /\ d.field = e.field)
                    => d = e

RECURSIVE DefectSets(_)
\* The consistent sets of at most k defects.
DefectSets(k) ==
    IF k = 0 THEN {{}}
    ELSE LET S == DefectSets(k - 1)
         IN  S \cup {D \cup {d} : D \in S, d \in Defects \ {NoDefect}}

NonObjectReplies ==
    << Null, IntV(5), StrV(AllKeysText),
       ListV([i \in 1 .. 4 |-> StrV(required_meals[i])]) >>

(***************************************************************************)
(* The state machine of the validation: one call per step.                 *)
(***************************************************************************)
NoCalc == [age |-> 0, gender |-> Null, weight |-> 0, height |-> 0,
           activity_level |-> Null, diet_goal |-> Null, value |-> 0, failed |-> FALSE]

\* A row of user_profiles.csv; written_by tells the rows that save_user_profile
\* wrote from those the file held before.
Row(daily_calories, by) ==
    [exists |-> TRUE, daily_calories |-> daily_calories, written_by |-> by]
NoProfile == [exists |-> FALSE, daily_calories |-> 0, written_by |-> ""]

\* calculate_bmi has not been called.
NoBmi == [weight |-> Null, height |-> Null, value |-> 0, report |-> ""]

\* initialize_session_state, for the keys of the login page.
LoggedOut ==
    [logged_in |-> FALSE, user_id |-> "", login_attempts |-> 0, show_register |-> FALSE,
     show_password_change |-> FALSE, show_otp_verification |-> FALSE]

\* The session has done nothing.
NoAudit ==
    [op |-> "", user_id |-> "", password |-> "", status |-> "", proved |-> {},
     changed |-> {}]

\* No prompt has been built.
NoPrompt == [medical_conditions |-> <<>>, section |-> <<>>]

\* No targets have been computed.
NoTargets == [daily_calories |-> 0, targets |-> <<>>]

\* get_bmi_category has not been called.
NoCategory == [bmi |-> 0, label |-> ""]

\* MEDICAL_CONDITIONS as the module defines it.
ConditionsTable ==
    "Diabetes" :>
        [avoid |-> <<"sugar", "white bread", "white rice", "processed foods",
                     "candy", "soda", "pastries">>,
         recommend |-> <<"whole grains", "leafy greens", "berries", "nuts",
                         "lean protein", "quinoa">>,
         description |-> "Foods that help manage blood sugar levels"]
    @@
    "High Blood Pressure" :>
        [avoid |-> <<"salt", "processed meats", "pickles", "canned soups",
                     "fast food", "bacon">>,
         recommend |-> <<"bananas", "spinach", "avocados", "garlic", "berries",
                         "oats">>,
         description |-> "Low-sodium foods that support heart health"]
    @@
    "Heart Disease" :>
        [avoid |-> <<"saturated fats", "trans fats", "processed meats",
                     "fried foods", "butter">>,
         recommend |-> <<"fatty fish", "oats", "berries", "dark chocolate",
                         "olive oil", "nuts">>,
         description |-> "Heart-healthy foods rich in omega-3s"]
    @@
    "Kidney Disease" :>
        [avoid |-> <<"high-potassium foods", "processed meats", "dairy",
                     "bananas", "oranges">>,
         recommend |-> <<"apples", "berries", "cauliflower", "olive oil",
                         "white rice">>,
         description |-> "Low-potassium and low-phosphorus foods"]
    @@
    "Celiac Disease" :>
        [avoid |-> <<"wheat", "barley", "rye", "most processed foods", "beer",
                     "pasta">>,
         recommend |-> <<"quinoa", "rice", "gluten-free oats", "fruits",
                         "vegetables">>,
         description |-> "Naturally gluten-free foods"]
    @@
    "Lactose Intolerance" :>
        [avoid |-> <<"milk", "cheese", "yogurt", "butter", "ice cream",
                     "cream">>,
         recommend |-> <<"almond milk", "lactose-free products",
                         "leafy greens", "nuts">>,
         description |-> "Dairy-free alternatives and calcium-rich foods"]
    @@
    "High Cholesterol" :>
        [avoid |-> <<"fried foods", "processed meats", "full-fat dairy",
                     "baked goods", "egg yolks">>,
         recommend |-> <<"oats", "nuts", "fatty fish", "olive oil", "beans",
                         "apples">>,
         description |-> "Foods that help lower cholesterol"]
    @@
    "Gout" :>
        [avoid |-> <<"red meat", "organ meats", "shellfish", "alcohol",
                     "sugary drinks">>,
         recommend |-> <<"low-fat dairy", "vegetables", "cherries",
                         "whole grains", "water">>,
         description |-> "Low-purine foods that reduce uric acid"]
    @@
    "GERD" :>
        [avoid |-> <<"spicy foods", "citrus", "tomatoes", "chocolate",
                     "coffee", "alcohol">>,
         recommend |-> <<"oatmeal", "ginger", "lean meats", "vegetables",
                         "melons">>,
         description |-> "Non-acidic foods that reduce reflux"]
    @@
    "IBS" :>
        [avoid |-> <<"high-fiber foods", "dairy", "artificial sweeteners",
                     "beans", "cabbage">>,
         recommend |-> <<"rice", "bananas", "carrots", "lean proteins",
                         "herbal teas">>,
         description |-> "Gentle foods that reduce digestive symptoms"]

\* The sessions of the process; each is used by one person, with one e-mail.
Sessions == {1, 2}
UserId(s) == IF s = 1 THEN "one@example.com" ELSE "two@example.com"

\* A file with the header line only, as ensure_user_db creates it.
EmptyFile == <<>>

\* No password reset was asked for.
NoReset == [asked |-> FALSE, done |-> {}]

\* A session's thread between two operations, on the page named stage; op,
\* df, wrote and ret tell the last operation, the data frame it ended with,
\* whether it wrote the frame to the file, and what it returned.
Idle(stage, op, df, wrote, ret) ==
    [stage |-> stage, pc |-> "idle", op |-> op, df |-> df, wrote |-> wrote, ret |-> ret]

\* No reply is at hand, no operation on a reply's text has run, the files
\* hold no row and every session shows the login and register forms.
InitAux ==
    /\ bmi = NoBmi
    /\ bmi_category = NoCategory
    /\ meal_targets = NoTargets
    /\ USER_DB_FILE = EmptyFile
    /\ USER_PROFILE_FILE = EmptyFile
    /\ MEAL_HISTORY_FILE = EmptyFile
    /\ MEDICAL_CONDITIONS = ConditionsTable
    /\ threads = [s \in Sessions |-> Idle("auth", "", EmptyFile, FALSE, FALSE)]
    /\ collaborator = <<>>
    /\ collaborator_calls = 0
    /\ alternatives = Null
    /\ prompt = NoPrompt
    /\ session_state = LoggedOut
    /\ audit = NoAudit
    /\ resets = [u \in {UserId(s) : s \in Sessions} |-> NoReset]

\* Nothing has been called, and the user has no profile (initialize_session_state).
Init ==
    /\ InitAux
    /\ response = NoCall
    /\ result = Null
    /\ handler = NoHandler
    /\ calc = NoCalc
    /\ profile = NoProfile
    /\ profile_completed = FALSE
    /\ current_meal_plan = Null
    /\ generated_meal_count = 0
    /\ pc = "init"

\* A call starts from the idle state: the function keeps nothing between calls.
Returned(resp, r) ==
    /\ pc = "init"
    /\ response' = resp
    /\ result' = r.ret
    /\ handler' = r.handler
    /\ pc' = "diet"
    /\ UNCHANGED <<calc, session, aux>>

Call(resp) == Returned(resp, generate_medical_condition_diet(resp))

\* generate_medical_condition_diet with a reply that is a JSON object.
GenerateDiet ==
    /\ pc = "init"
    /\ \E D \in DefectSets(MaxDefects) :
          /\ Consistent(D)
          /\ Call(PlanReply(D))

\* generate_medical_condition_diet with any other reply, or none.
GenerateDietOther ==
    /\ pc = "init"
    /\ \/ \E i \in DOMAIN NonObjectReplies : Call(JsonText(NonObjectReplies[i]))
       \/ Call(Malformed)
       \/ Call(Raises)

\* The caller has read the returned value; the call's locals are gone.
ReturnDiet ==
    /\ pc = "diet"
    /\ response' = NoCall
    /\ result' = Null
    /\ handler' = NoHandler
    /\ pc' = "init"
    /\ UNCHANGED <<calc, session, aux>>

NextValidate == GenerateDiet \/ GenerateDietOther \/ ReturnDiet

SpecValidate == Init /\ [][NextValidate]_vars

(***************************************************************************)
(* Python's arithmetic.  The numbers of the model are integers; a value    *)
(* with decimals is counted in a fixed unit (quarters, tenths, ...).       *)
(***************************************************************************)
\* round(num / den) for den > 0, the quotient exact: to the nearest integer,
\* a tie to the even one.
RoundHalfEven(num, den) ==
    LET q == num \div den
        r == num % den
    IN  IF 2 * r > den \/ (2 * r = den /\ q % 2 = 1) THEN q + 1 ELSE q

Abs(x) == IF x < 0 THEN -x ELSE x

RECURSIVE FloorPow2(_)
\* The largest power of two that is at most k, for k >= 1.
FloorPow2(k) == IF k < 2 THEN 1 ELSE 2 * FloorPow2(k \div 2)

\* round(daily * 0.pct) for the four percentages of the prompt.  The product
\* is a double.  0.25 is exact and the doubles 0.30 and 0.10 give the exact
\* product wherever it is a tie (k + 0.5).  The double 0.35 is 0.4 * 2^-54
\* below 0.35, so where the exact product is a tie in the upper quarter of its
\* binade the double product falls below the tie and round() goes toward zero.
RoundPercent(daily, pct) ==
    LET exact == daily * pct
        k     == Abs(exact) \div 100
    IN  IF exact % 100 = 50 /\ pct = 35 /\ k >= 1 /\ 4 * k + 2 > 7 * FloorPow2(k)
        THEN (IF exact < 0 THEN -k ELSE k)
        ELSE RoundHalfEven(exact, 100)

(***************************************************************************)
(* calculate_daily_calories                                                *)
(***************************************************************************)
\* str.lower() for the texts of the model.
LowerTable ==
    [s \in {"Male", "Female", "Other", "Sedentary", "Light", "Moderate", "Active",
            "Very Active", "Maintain Weight", "Weight Loss", "Weight Gain",
            "Muscle Gain"} |->
        CASE s = "Male" -> "male"               [] s = "Female" -> "female"
          [] s = "Other" -> "other"             [] s = "Sedentary" -> "sedentary"
          [] s = "Light" -> "light"             [] s = "Moderate" -> "moderate"
          [] s = "Active" -> "active"           [] s = "Very Active" -> "very active"
          [] s = "Maintain Weight" -> "maintain weight"
          [] s = "Weight Loss" -> "weight loss" [] s = "Weight Gain" -> "weight gain"
          [] OTHER -> "muscle gain"]
Lower(s) == IF s \in DOMAIN LowerTable THEN LowerTable[s] ELSE s

\* v.lower(): an AttributeError when v is no text.
PyLower(v) ==
    IF v.t = "str" THEN Ok(StrV(Lower(v.s)))
    ELSE Raise("AttributeError", "object has no attribute 'lower'", {})

\* The multipliers, in thousandths.
activity_multipliers ==
    [a \in {"sedentary", "light", "moderate", "active", "very active"} |->
        CASE a = "sedentary" -> 1200 [] a = "light" -> 1375 [] a = "moderate" -> 1550
          [] a = "active" -> 1725    [] OTHER -> 1900]
DefaultMultiplier == 1550

goal_adjustments ==
    [g \in {"weight loss", "weight gain", "muscle gain", "maintain weight"} |->
        CASE g = "weight loss" -> -500 [] g = "weight gain" -> 500
          [] g = "muscle gain" -> 300  [] OTHER -> 0]

MinCalories     == 1200
DefaultFallback == 2000

\* Bmr4 with the constant of the other genders for every gender.
Bmr4_other(age, male, weight, height) ==
    40 * weight + 25 * height - 20 * age - 644

\* GetOr without the default.
GetOr_none(table, key, dflt) == IF key \in DOMAIN table THEN table[key] ELSE 0

\* dict.get(key, dflt)
GetOr(table, key, dflt) == IF key \in DOMAIN table THEN table[key] ELSE dflt

\* bmr, in quarters of a calorie: (10 w + 6.25 h - 5 a + 5), or - 161 for others.
Bmr4(age, male, weight, height) ==
    40 * weight + 25 * height - 20 * age + (IF male THEN 20 ELSE -644)

\* BmiTenths with the decimals after the first cut off.
BmiTenths_cut(weight, height) == {(100000 * weight) \div (height * height)}

\* round(tdee + adjustment), tdee = bmr * multiplier.
CalculatedCalories(bmr4, multiplier, adjustment) ==
    RoundHalfEven(bmr4 * multiplier + 4000 * adjustment, 4000)

\* FlooredCalories without the floor.
FlooredCalories_none(calculated_calories) == calculated_calories

\* FlooredCalories with a floor of 0.
FlooredCalories_zero(calculated_calories) ==
    IF calculated_calories < 0 THEN 0 ELSE calculated_calories

\* return max(1200, calculated_calories)
FlooredCalories(calculated_calories) ==
    IF calculated_calories < MinCalories THEN MinCalories ELSE calculated_calories

\* The try block, once the three .lower() calls gave g, a and d.
CaloriesTry(age, g, weight, height, a, d) ==
    IF Failed(g) THEN g
    ELSE IF Failed(a) THEN a
    ELSE IF Failed(d) THEN d
    ELSE Ok(IntV(FlooredCalories(
            CalculatedCalories(Bmr4(age, g.val.s = "male", weight, height),
                               GetOr(activity_multipliers, a.val.s, DefaultMultiplier),
                               GetOr(goal_adjustments, d.val.s, 0)))))

\* CaloriesExcept with the floor of the try block as the fallback.
CaloriesExcept_floor(r) ==
    IF Failed(r) THEN [value |-> MinCalories, failed |-> TRUE]
    ELSE [value |-> r.val.n, failed |-> FALSE]

\* except Exception: return 2000
CaloriesExcept(r) ==
    IF Failed(r) THEN [value |-> DefaultFallback, failed |-> TRUE]
    ELSE [value |-> r.val.n, failed |-> FALSE]

\* age, weight and height are numbers; gender, activity_level and diet_goal
\* are Python values (a text, or None).
calculate_daily_calories(age, gender, weight, height, activity_level, diet_goal) ==
    CaloriesExcept(CaloriesTry(age, PyLower(gender), weight, height,
                               PyLower(activity_level), PyLower(diet_goal)))

(***************************************************************************)
(* The request: the per-meal calorie targets the prompt states.            *)
(***************************************************************************)
breakfast_cal_percent == 25
lunch_cal_percent     == 35
dinner_cal_percent    == 30
snacks_cal_percent    == 10

\* cal_percent with a quarter for dinner and 0.30 for breakfast.
cal_percent_swapped ==
    [m \in Range(required_meals) |->
        CASE m = "breakfast" -> dinner_cal_percent
          [] m = "lunch"     -> lunch_cal_percent
          [] m = "dinner"    -> breakfast_cal_percent
          [] m = "snacks"    -> snacks_cal_percent]

cal_percent ==
    [m \in Range(required_meals) |->
        CASE m = "breakfast" -> breakfast_cal_percent
          [] m = "lunch"     -> lunch_cal_percent
          [] m = "dinner"    -> dinner_cal_percent
          [] m = "snacks"    -> snacks_cal_percent]

\* MealTargets with the products cut to whole numbers instead of rounded.
MealTargets_cut(daily_calories) ==
    [m \in Range(required_meals) |-> (daily_calories * cal_percent[m]) \div 100]

\* MealTargets with the products raised to the next whole number.
MealTargets_up(daily_calories) ==
    [m \in Range(required_meals) |-> (daily_calories * cal_percent[m] + 99) \div 100]

\* round(daily_calories * percent) of each meal, as the prompt prints them.
MealTargets(daily_calories) ==
    [m \in Range(required_meals) |-> RoundPercent(daily_calories, cal_percent[m])]

TargetSum(daily_calories) ==
    MealTargets(daily_calories)["breakfast"] + MealTargets(daily_calories)["lunch"]
    + MealTargets(daily_calories)["dinner"] + MealTargets(daily_calories)["snacks"]

(***************************************************************************)
(* The state machine of the calculator: one call of                        *)
(* calculate_daily_calories per step, its inputs drawn from samples of     *)
(* their ranges.                                                           *)
(***************************************************************************)
WeightSamples == 2

MinAge    == 18
MaxAge    == 99
MinHeight == 100
MaxHeight == 250
MinWeight == 30
MaxWeight == 200

\* n values spread from lo to hi, both ends among them.
Samples(lo, hi, n) == {lo + ((hi - lo) * i) \div (n - 1) : i \in 0 .. (n - 1)}

\* What the sliders and selectors of the profile form can give.
FormAges       == {MinAge, MaxAge}
FormHeights    == {MinHeight, MaxHeight}
FormWeights    == Samples(MinWeight, MaxWeight, WeightSamples)
FormGenders    == {"Male", "Female", "Other"}
FormActivities == {"Sedentary", "Light", "Moderate", "Active", "Very Active"}
FormGoals      == {"Maintain Weight", "Weight Loss", "Weight Gain", "Muscle Gain"}

\* What a caller of the function can pass: any positive height and weight, and
\* any Python value for the three texts.
AnyHeights    == FormHeights \cup {1}
AnyWeights    == FormWeights \cup {1}
AnyGenders    == {StrV(g) : g \in FormGenders \cup {"male", "x"}} \cup {Null}
AnyActivities == {StrV(a) : a \in FormActivities \cup {"very active", "very_active", "Unknown"}}
                 \cup {Null}
AnyGoals      == {StrV(g) : g \in FormGoals \cup {"weight loss", "weight_loss", "Keto"}}
                 \cup {Null}

Calculated(age, gender, weight, height, activity_level, diet_goal, r) ==
    /\ calc' = [age |-> age, gender |-> gender, weight |-> weight, height |-> height,
                activity_level |-> activity_level, diet_goal |-> diet_goal,
                value |-> r.value, failed |-> r.failed]
    /\ pc' = "calc"
    /\ UNCHANGED <<response, result, handler, session, aux>>

CalculateDailyCalories ==
    /\ pc = "init"
    /\ \E age \in FormAges, weight \in AnyWeights, height \in AnyHeights,
          gender \in AnyGenders, activity_level \in AnyActivities, diet_goal \in AnyGoals :
          Calculated(age, gender, weight, height, activity_level, diet_goal,
                     calculate_daily_calories(age, gender, weight, height,
                                              activity_level, diet_goal))

\* The caller has read the returned value.
ReturnCalc ==
    /\ pc = "calc"
    /\ calc' = NoCalc
    /\ pc' = "init"
    /\ UNCHANGED <<response, result, handler, session, aux>>

\* round(weight / ((height/100) ** 2), 1), in tenths, for positive numbers:
\* the tenth nearest to 10000 * weight / height^2.  Where that quotient lies
\* midway between two tenths, the side round() takes follows the rounding
\* error of the double (height/100) ** 2 and of the division (0.25 gives 0.2,
\* 3 / 0.4 ** 2 gives 18.7), so either neighbour is possible.
BmiTenths(weight, height) ==
    LET num == 100000 * weight
        den == height * height
    IN  IF 2 * (num % den) = den
        THEN {num \div den, (num \div den) + 1}
        ELSE {RoundHalfEven(num, den)}

\* weight and height are Python values (a number, or None); rounded is the
\* value round() gives when the division is reached.  v <= 0 raises TypeError
\* for None, and the except clause returns 0 after st.error; a number that
\* is 0 or less returns 0 after st.warning.
calculate_bmi(weight, height, rounded) ==
    IF height.t # "int" THEN [value |-> 0, report |-> "error"]
    ELSE IF height.n <= 0 THEN [value |-> 0, report |-> "warning"]
    ELSE IF weight.t # "int" THEN [value |-> 0, report |-> "error"]
    ELSE IF weight.n <= 0 THEN [value |-> 0, report |-> "warning"]
    ELSE [value |-> rounded, report |-> "none"]

\* What a caller can pass to calculate_bmi.
BmiWeights == {IntV(w) : w \in FormWeights \cup {-70, 0, 1, 3, 70}} \cup {Null}
BmiHeights == {IntV(h) : h \in FormHeights \cup {-175, 0, 1, 40, 175, 200}} \cup {Null}

\* The values round() can give for the inputs, 0 where the division is not
\* reached.
BmiRounded(weight, height) ==
    IF weight.t = "int" /\ height.t = "int" /\ weight.n > 0 /\ height.n > 0
    THEN BmiTenths(weight.n, height.n)
    ELSE {0}

BmiReturned(weight, height, r) ==
    /\ bmi' = [weight |-> weight, height |-> height,
               value |-> r.value, report |-> r.report]
    /\ pc' = "bmi"
    /\ UNCHANGED <<response, result, handler, calc, session, text_vars, bmi_category, meal_targets,
                 auth_vars, shared>>

CalculateBmi ==
    /\ pc = "init"
    /\ \E weight \in BmiWeights, height \in BmiHeights :
          \E rounded \in BmiRounded(weight, height) :
              BmiReturned(weight, height, calculate_bmi(weight, height, rounded))

\* The caller has read the returned value.
ReturnBmi ==
    /\ pc = "bmi"
    /\ bmi' = NoBmi
    /\ pc' = "init"
    /\ UNCHANGED <<response, result, handler, calc, session, text_vars, bmi_category, meal_targets,
                 auth_vars, shared>>

\* b, the bmi, is a number with one decimal, in tenths.  A value round(x, 1)
\* gave and the literals 18.5, 24.9 and 29.9 are the doubles nearest to the
\* decimals, so the comparisons are those of the decimals.
get_bmi_category(b) ==
    IF b < 185 THEN "Underweight"
    ELSE IF 185 <= b /\ b < 249 THEN "Normal weight"
    ELSE IF 250 <= b /\ b < 299 THEN "Overweight"
    ELSE "Obese"

\* The values the bmi column of a profile can hold: 0 (calculate_bmi's
\* sentinel) up to the BMI of the greatest weight and the smallest height of
\* the form, in tenths.
ProfileBmis == 0 .. ((100000 * MaxWeight) \div (MinHeight * MinHeight))

\* The dashboard shows the category of the profile's bmi.
GetBmiCategory ==
    /\ pc = "init"
    /\ \E b \in ProfileBmis :
          bmi_category' = [bmi |-> b, label |-> get_bmi_category(b)]
    /\ pc' = "category"
    /\ UNCHANGED <<response, result, handler, calc, session, text_vars, bmi,
                 meal_targets, auth_vars, shared>>

\* The caller has read the label.
ReturnCategory ==
    /\ pc = "category"
    /\ bmi_category' = NoCategory
    /\ pc' = "init"
    /\ UNCHANGED <<response, result, handler, calc, session, text_vars, bmi,
                 meal_targets, auth_vars, shared>>

\* The daily targets the four products are rounded for.
MaxDaily == 8000
DailyTargets == MinCalories .. MaxDaily

\* The prompt's four round(daily_calories * percent) for a daily target.
RoundTargets ==
    /\ pc = "init"
    /\ \E daily_calories \in DailyTargets :
          meal_targets' = [daily_calories |-> daily_calories,
                           targets |-> MealTargets(daily_calories)]
    /\ pc' = "targets"
    /\ UNCHANGED <<response, result, handler, calc, session, text_vars, bmi,
                   bmi_category, auth_vars, shared>>

\* The prompt has been written.
ReturnTargets ==
    /\ pc = "targets"
    /\ meal_targets' = NoTargets
    /\ pc' = "init"
    /\ UNCHANGED <<response, result, handler, calc, session, text_vars, bmi,
                   bmi_category, auth_vars, shared>>

NextCalc ==
    \/ CalculateDailyCalories \/ ReturnCalc
    \/ CalculateBmi \/ ReturnBmi
    \/ GetBmiCategory \/ ReturnCategory
    \/ RoundTargets \/ ReturnTargets

SpecCalc == Init /\ [][NextCalc]_vars

(***************************************************************************)
(* The targets the page of the plan shows, and the request.                *)
(***************************************************************************)
\* display_meal_plan's fraction of a meal, in hundredths:
\*   0.25 if breakfast else (0.35 if lunch else (0.30 if dinner else 0.10))
DisplayPercent(meal_type) ==
    IF meal_type = "breakfast" THEN 25
    ELSE IF meal_type = "lunch" THEN 35
    ELSE IF meal_type = "dinner" THEN 30
    ELSE 10

\* The target display_meal_plan shows for a meal.
DisplayTarget(daily_calories, meal_type) ==
    RoundPercent(daily_calories, DisplayPercent(meal_type))

\* What generate_comprehensive_meal_plan asks for with the profile row p.
GenerationRequest(p) ==
    [daily_calories |-> p.daily_calories, targets |-> MealTargets(p.daily_calories)]

(***************************************************************************)
(* generate_comprehensive_meal_plan                                        *)
(***************************************************************************)
\* A number with one decimal place: n tenths.
DecimalV(n) == Leaf("float1", n, "")

\* num / den rounded to an integer.  At an exact tie the result depends on the
\* floating-point quotient and on the rounding routine of the number's type
\* (the row's daily_calories is a numpy number), so either neighbour is let.
RoundTenths(num, den) ==
    IF 2 * (num % den) = den THEN {num \div den, (num \div den) + 1}
    ELSE {RoundHalfEven(num, den)}

\* Coverage with the quotient cut to one decimal place instead of rounded.
Coverage_cut(total_calories_generated, daily_calories) ==
    IF daily_calories > 0
    THEN {DecimalV((1000 * total_calories_generated) \div daily_calories)}
    ELSE {IntV(0)}

\* The values of
\*   round((total / daily_calories) * 100, 1) if daily_calories > 0 else 0
Coverage(total_calories_generated, daily_calories) ==
    IF daily_calories > 0
    THEN {DecimalV(c) : c \in RoundTenths(1000 * total_calories_generated, daily_calories)}
    ELSE {IntV(0)}

TotalCaloriesGenerated(meal_plan) == meal_plan.obj["daily_summary"].obj["total_calories"].n

Coverages(meal_plan, p) ==
    IF PyTruthy(meal_plan) THEN Coverage(TotalCaloriesGenerated(meal_plan), p.daily_calories)
    ELSE {Null}

\* The keys lines 808-816 put on the validated plan.
metadata_keys ==
    <<"user_id", "generated_at", "medical_conditions_applied", "vegetarian_pref",
      "daily_target_calories", "coverage">>

\* The metadata and the coverage put on the validated plan; one user id, one
\* time, one list of conditions and one preference stand for all.
WithMetadata(meal_plan, p, coverage) ==
    PySet(PySet(PySet(PySet(PySet(PySet(meal_plan,
        "user_id", StrV("one@example.com")),
        "generated_at", StrV("isoformat")),
        "medical_conditions_applied", ListV(<<>>)),
        "vegetarian_pref", BoolV(FALSE)),
        "daily_target_calories", IntV(p.daily_calories)),
        "coverage", coverage)

\* What the function returns and stores, meal_plan being what
\* generate_medical_condition_diet returned.
ComprehensivePlan(p, meal_plan, coverage) ==
    IF ~p.exists THEN Null
    ELSE IF PyTruthy(meal_plan) THEN WithMetadata(meal_plan, p, coverage)
    ELSE Null

(***************************************************************************)
(* The replies to a request.                                               *)
(***************************************************************************)
\* The well-formed plan whose meals total meal_totals and whose summary
\* totals total.
PlanWithTotals(meal_totals, total) ==
    ObjV([k \in Range(required_meals) \cup {"daily_summary"} |->
            IF k = "daily_summary"
            THEN PySet(SummaryOf({}), "total_calories", FloatV(total))
            ELSE PySet(MealOf({}, k), "total_calories", IntV(meal_totals[k]))])

TemplateTotals == [m \in Range(required_meals) |-> TemplateMealField(m, "total_calories").n]

\* The reply that gives every meal its target and the summary their sum.
RoundTripReply(request) ==
    JsonText(PlanWithTotals(request.targets,
                            request.targets["breakfast"] + request.targets["lunch"]
                            + request.targets["dinner"] + request.targets["snacks"]))

\* Summary totals of the replies that ignore the targets.
ReplyTotals == {-5, 0, 1, 1997, 3000}

MissingSnacks == [lvl |-> "top", meal |-> "snacks", idx |-> 0, field |-> "", mut |-> 0]

PlanReplies(request) ==
    {RoundTripReply(request)}
    \cup {JsonText(PlanWithTotals(TemplateTotals, t)) : t \in ReplyTotals}
    \cup {PlanReply({MissingSnacks}), Malformed, Raises}

(***************************************************************************)
(* The state machine of a logged-in session: the profile form, and the     *)
(* Edit Profile and Generate New Meal Plan buttons of the main interface.  *)
(***************************************************************************)
MaxGenerations == 2

\* daily_calories of the rows user_profiles.csv may hold when the session
\* starts; the file is read as found.
FileCalories == {-100, 0, 1, 2000}

\* The state after a successful login: profile_completed tells whether the
\* user has a row.
InitPlan ==
    /\ InitAux
    /\ response = NoCall
    /\ result = Null
    /\ handler = NoHandler
    /\ calc = NoCalc
    /\ profile \in {NoProfile} \cup {Row(d, "file") : d \in FileCalories}
    /\ profile_completed = profile.exists
    /\ current_meal_plan = Null
    /\ generated_meal_count = 0
    /\ pc = "init"

\* save_user_profile: the user's row is written with the computed calories.
save_user_profile(daily_calories) == Row(daily_calories, "save_user_profile")

\* What calculate_daily_calories gives for the inputs the form can submit.
FormCalories ==
    {calculate_daily_calories(age, StrV(gender), weight, height, StrV(activity_level),
                              StrV(diet_goal)).value :
        age \in FormAges, weight \in FormWeights, height \in FormHeights,
        gender \in FormGenders, activity_level \in FormActivities,
        diet_goal \in FormGoals}

\* The profile form is submitted: the row is saved with the calories computed
\* from the form's inputs.
SaveProfile ==
    /\ ~profile_completed
    /\ \E daily_calories \in FormCalories : profile' = save_user_profile(daily_calories)
    /\ profile_completed' = TRUE
    /\ pc' = "save"
    /\ UNCHANGED <<response, result, handler, calc, current_meal_plan,
                   generated_meal_count, aux>>

\* The Edit Profile button.
EditProfile ==
    /\ profile_completed
    /\ profile_completed' = FALSE
    /\ current_meal_plan' = Null
    /\ response' = NoCall
    /\ result' = Null
    /\ handler' = NoHandler
    /\ pc' = "edit"
    /\ UNCHANGED <<calc, profile, generated_meal_count, aux>>

\* The button as it would be if a failed generation left the stored plan.
Planned_keep(resp, r) ==
    /\ response' = resp
    /\ result' = r.ret
    /\ handler' = r.handler
    /\ \E coverage \in Coverages(r.ret, profile) :
          current_meal_plan' = IF profile.exists /\ PyTruthy(r.ret)
                               THEN ComprehensivePlan(profile, r.ret, coverage)
                               ELSE current_meal_plan
    /\ generated_meal_count' = IF profile.exists /\ PyTruthy(r.ret)
                               THEN generated_meal_count + 1
                               ELSE generated_meal_count
    /\ pc' = "plan"
    /\ UNCHANGED <<calc, profile, profile_completed, aux>>

\* generate_comprehensive_meal_plan on the reply resp, r being what
\* generate_medical_condition_diet made of it, and the assignment of what it
\* returned to current_meal_plan.
Planned(resp, r) ==
    /\ response' = resp
    /\ result' = r.ret
    /\ handler' = r.handler
    /\ \E coverage \in Coverages(r.ret, profile) :
          current_meal_plan' = ComprehensivePlan(profile, r.ret, coverage)
    /\ generated_meal_count' = IF profile.exists /\ PyTruthy(r.ret)
                               THEN generated_meal_count + 1
                               ELSE generated_meal_count
    /\ pc' = "plan"
    /\ UNCHANGED <<calc, profile, profile_completed, aux>>

\* The Generate New Meal Plan button:
\*   current_meal_plan = generate_comprehensive_meal_plan()
GeneratePlan ==
    /\ profile_completed
    /\ generated_meal_count < MaxGenerations
    /\ \E resp \in PlanReplies(GenerationRequest(profile)) :
          Planned(resp, generate_medical_condition_diet(resp))

\* The Submit Feedback button under the displayed plan; saved is what
\* save_meal_feedback returned.
SubmitFeedback ==
    /\ profile_completed
    /\ PyTruthy(current_meal_plan)
    /\ \E saved \in BOOLEAN :
          current_meal_plan' = IF saved THEN Null ELSE current_meal_plan
    /\ pc' = "feedback"
    /\ UNCHANGED <<response, result, handler, calc, profile, profile_completed,
                   generated_meal_count, aux>>

NextPlan == SaveProfile \/ EditProfile \/ GeneratePlan \/ SubmitFeedback

SpecPlan == InitPlan /\ [][NextPlan]_vars

(***************************************************************************)
(* The text of a reply.  A text is a sequence of characters.  The inside   *)
(* of a JSON document is written as one element that stands for the run of *)
(* characters between its brackets: a slice that would cut into that run   *)
(* removes it whole, and what is left parses no more than the real rest.   *)
(***************************************************************************)
\* text.strip()
PyStrip(text) ==
    LET Whitespace == {" ", "\n"}
        RECURSIVE LStrip(_), RStrip(_)
        LStrip(t) == IF t # <<>> /\ Head(t) \in Whitespace THEN LStrip(Tail(t)) ELSE t
        RStrip(t) == IF t # <<>> /\ t[Len(t)] \in Whitespace
                     THEN RStrip(SubSeq(t, 1, Len(t) - 1))
                     ELSE t
    IN  RStrip(LStrip(text))

\* text.startswith(prefix)
PyStartsWith(text, prefix) ==
    Len(text) >= Len(prefix) /\ SubSeq(text, 1, Len(prefix)) = prefix

\* text[start:-3]
PySlice(text, start) == SubSeq(text, start + 1, Len(text) - 3)

\* Three backquote characters.
Fence     == <<"backquote", "backquote", "backquote">>
FenceJson == Fence \o <<"j", "s", "o", "n">>

\* The clean-up of response_text before json.loads.
Unfence(response_text) ==
    IF PyStartsWith(response_text, FenceJson) THEN PyStrip(PySlice(response_text, 7))
    ELSE IF PyStartsWith(response_text, Fence) THEN PyStrip(PySlice(response_text, 3))
    ELSE response_text

\* The JSON documents of the model: the text of each and the value it denotes.
Documents ==
    LET ThreeNames ==
            <<StrV("Alternative 1"), StrV("Alternative 2"), StrV("Alternative 3")>>
        LunchCaloriesNull ==
            [lvl |-> "item", meal |-> "lunch", idx |-> 1, field |-> "calories", mut |-> 4]
    IN
    { [text |-> <<"[", "3 names", "]">>, val |-> ListV(ThreeNames)],
      [text |-> <<"[", "4 names", "]">>,
       val  |-> ListV(Append(ThreeNames, StrV("Alternative 4")))],
      [text |-> <<"[", "number, object", "]">>,
       val  |-> ListV(<<IntV(1), ObjV([name |-> StrV("Alternative 1")])>>)],
      [text |-> <<"[", "]">>, val |-> ListV(<<>>)],
      [text |-> <<"{", "alternatives: 3 names", "}">>,
       val  |-> ObjV([alternatives |-> ListV(ThreeNames)])],
      [text |-> <<"5">>, val |-> IntV(5)],
      [text |-> <<"{", "plan", "}">>, val |-> PlanOf({})],
      [text |-> <<"{", "plan without snacks", "}">>, val |-> PlanOf({MissingSnacks})],
      [text |-> <<"{", "plan, lunch calories null", "}">>,
       val  |-> PlanOf({LunchCaloriesNull})] }

\* A text that is no JSON document.
Prose == <<"S", "o", "r", "r", "y">>

\* json.loads(text): surrounding whitespace is skipped.
JsonLoads(text) ==
    IF \E d \in Documents : d.text = PyStrip(text)
    THEN Ok((CHOOSE d \in Documents : d.text = PyStrip(text)).val)
    ELSE Raise("JSONDecodeError", "parse", {})

\* json.loads(response_text) after response.text.strip() and the clean-up.
LoadResponse(text) == JsonLoads(Unfence(PyStrip(text)))

(***************************************************************************)
(* The collaborator: model.generate_content.  A reply raises or is a text. *)
(***************************************************************************)
TextReply(text) == [raises |-> FALSE, text |-> text]
FailedCall      == [raises |-> TRUE, text |-> <<>>]

\* One call of model.generate_content, calls having been made before: the
\* collaborator's next reply.
generate_content(replies, calls) == [reply |-> replies[calls + 1], calls |-> calls + 1]

\* What the reply is to generate_medical_condition_diet, once the text is read.
ParseReply(reply) ==
    IF reply.raises THEN Raises
    ELSE IF Failed(LoadResponse(reply.text)) THEN Malformed
    ELSE JsonText(LoadResponse(reply.text).val)

\* generate_medical_condition_diet, g being the outcome of its single call of
\* generate_content.
DietOf(g) ==
    [resp |-> ParseReply(g.reply),
     out |-> generate_medical_condition_diet(ParseReply(g.reply)),
     calls |-> g.calls]

\* A variant that calls generate_content again when the first reply gave no plan.
DietCall_retry(replies) ==
    IF DietOf(generate_content(replies, 0)).out.ret = Null
    THEN DietOf(generate_content(replies, 1))
    ELSE DietOf(generate_content(replies, 0))

DietCall(replies) == DietOf(generate_content(replies, 0))

(***************************************************************************)
(* get_food_alternatives                                                   *)
(***************************************************************************)
\* AlternativesReturn without the isinstance test.
AlternativesReturn_any(r) ==
    IF Failed(r)
    THEN [ret |-> ListV(<<>>),
          handler |-> [clause |-> "JSONDecodeError", msg |-> r.msg, names |-> {}]]
    ELSE [ret |-> r.val, handler |-> NoHandler]

\* return alternatives if isinstance(alternatives, list) else [], and the two
\* except clauses, r being the outcome of json.loads.
AlternativesReturn(r) ==
    IF Failed(r)
    THEN [ret |-> ListV(<<>>),
          handler |-> [clause |-> "JSONDecodeError", msg |-> r.msg, names |-> {}]]
    ELSE [ret |-> IF r.val.t = "list" THEN r.val ELSE ListV(<<>>), handler |-> NoHandler]

get_food_alternatives(reply) ==
    IF reply.raises
    THEN [ret |-> ListV(<<>>),
          handler |-> [clause |-> "Exception", msg |-> "collaborator", names |-> {}]]
    ELSE AlternativesReturn(LoadResponse(reply.text))

\* get_food_alternatives with its single call of generate_content.
AlternativesCall(replies) ==
    [out |-> get_food_alternatives(generate_content(replies, 0).reply),
     calls |-> generate_content(replies, 0).calls]

\* ReadConditions with every condition read taken out of the table.
ReadConditions_pop(table, medical_conditions) ==
    [condition_info |-> <<>>,
     table |-> [c \in DOMAIN table \ Range(medical_conditions) |-> table[c]]]

\* ReadConditions with the first known condition only.
ReadConditions_first(table, medical_conditions) ==
    [condition_info |->
        LET known == SelectSeq(medical_conditions, LAMBDA c : c \in DOMAIN table)
        IN  [i \in DOMAIN known \cap {1} |->
                [condition |-> known[i], avoid |-> table[known[i]].avoid,
                 recommend |-> table[known[i]].recommend,
                 description |-> table[known[i]].description]],
     table |-> table]

\* The loop over medical_conditions of generate_medical_condition_diet and of
\* get_food_alternatives: what it collects, and the table as it leaves it.
ReadConditions(table, medical_conditions) ==
    [condition_info |->
        LET known == SelectSeq(medical_conditions, LAMBDA c : c \in DOMAIN table)
        IN  [i \in DOMAIN known |->
                [condition |-> known[i], avoid |-> table[known[i]].avoid,
                 recommend |-> table[known[i]].recommend,
                 description |-> table[known[i]].description]],
     table |-> table]

RECURSIVE PyJoin(_, _)
\* sep.join(parts), a text being the sequence of its pieces.
PyJoin(sep, parts) ==
    IF parts = <<>> THEN <<>>
    ELSE IF Len(parts) = 1 THEN parts[1]
    ELSE parts[1] \o sep \o PyJoin(sep, Tail(parts))

\* ", ".join(names)
CommaJoin(names) == PyJoin(<<", ">>, [i \in DOMAIN names |-> <<names[i]>>])

\* The line generate_medical_condition_diet appends for a known condition.
ConditionLine(info) ==
    <<info.condition, ": ", info.description, ". Avoid: ">> \o CommaJoin(info.avoid)
        \o <<". Recommend: ">> \o CommaJoin(info.recommend)

\* The line get_food_alternatives appends for a known condition.
RestrictionLine(info) == <<info.condition, ": avoid ">> \o CommaJoin(info.avoid)

\* condition_text of generate_medical_condition_diet.
condition_text(condition_info) ==
    IF condition_info # <<>>
    THEN PyJoin(<<"\n">>, [i \in DOMAIN condition_info |-> ConditionLine(condition_info[i])])
    ELSE <<"No specific medical conditions">>

\* restrictions of get_food_alternatives.
restrictions(condition_info) ==
    IF condition_info # <<>>
    THEN PyJoin(<<"\n">>, [i \in DOMAIN condition_info |-> RestrictionLine(condition_info[i])])
    ELSE <<"No specific restrictions">>

MaxConditions == 3

\* The lists of condition ids a caller passes: names of the table and a name
\* it lacks, in any order, a name more than once among them.
RECURSIVE ConditionLists(_)
ConditionLists(k) ==
    IF k = 0 THEN {<<>>}
    ELSE LET S == ConditionLists(k - 1)
         IN  S \cup {Append(l, c) : l \in S, c \in {"Diabetes", "Scurvy", "IBS"}}

(***************************************************************************)
(* The state machine of the operations on a reply's text: the collaborator *)
(* answers a first call with any of FirstReplies and would answer a second *)
(* with any of SecondReplies.                                              *)
(***************************************************************************)
\* The ways a document's text comes wrapped.
Wrappings(text) ==
    { text,
      <<" ">> \o text \o <<"\n">>,
      FenceJson \o <<"\n">> \o text \o <<"\n">> \o Fence,
      FenceJson \o text \o Fence,
      Fence \o <<"\n">> \o text \o <<"\n">> \o Fence,
      Fence \o <<"j", "s", "\n">> \o text \o <<"\n">> \o Fence,
      Fence \o <<"J", "S", "O", "N", "\n">> \o text \o <<"\n">> \o Fence,
      FenceJson \o <<"\n">> \o text }

FirstReplies ==
    {TextReply(w) : w \in UNION {Wrappings(d.text) : d \in Documents}}
    \cup {TextReply(Prose), TextReply(<<>>), FailedCall}

SecondReplies ==
    {TextReply(<<"{", "plan", "}">>), TextReply(<<"[", "3 names", "]">>), FailedCall}

DietReturned(replies, d, medical_conditions) ==
    /\ prompt' = [medical_conditions |-> medical_conditions,
                  section |-> condition_text(
                      ReadConditions(MEDICAL_CONDITIONS, medical_conditions).condition_info)]
    /\ collaborator' = replies
    /\ collaborator_calls' = d.calls
    /\ response' = d.resp
    /\ result' = d.out.ret
    /\ handler' = d.out.handler
    /\ pc' = "diet_text"
    /\ UNCHANGED <<alternatives, calc, session, bmi, bmi_category, meal_targets, auth_vars,
                 shared>>

\* A call of generate_medical_condition_diet.
DietOnText ==
    /\ pc = "init"
    /\ \E first \in FirstReplies, second \in SecondReplies,
          medical_conditions \in ConditionLists(MaxConditions) :
          DietReturned(<<first, second>>, DietCall(<<first, second>>), medical_conditions)

AlternativesReturned(replies, a, medical_conditions) ==
    /\ prompt' = [medical_conditions |-> medical_conditions,
                  section |-> restrictions(
                      ReadConditions(MEDICAL_CONDITIONS, medical_conditions).condition_info)]
    /\ collaborator' = replies
    /\ collaborator_calls' = a.calls
    /\ alternatives' = a.out.ret
    /\ handler' = a.out.handler
    /\ pc' = "alternatives"
    /\ UNCHANGED <<response, result, calc, session, bmi, bmi_category, meal_targets, auth_vars,
                 shared>>

\* A call of get_food_alternatives.
FoodAlternatives ==
    /\ pc = "init"
    /\ \E first \in FirstReplies, second \in SecondReplies,
          medical_conditions \in ConditionLists(MaxConditions) :
          AlternativesReturned(<<first, second>>, AlternativesCall(<<first, second>>),
                               medical_conditions)

\* The caller has read the returned value.
ReturnText ==
    /\ pc \in {"diet_text", "alternatives"}
    /\ collaborator' = <<>>
    /\ collaborator_calls' = 0
    /\ alternatives' = Null
    /\ prompt' = NoPrompt
    /\ response' = NoCall
    /\ result' = Null
    /\ handler' = NoHandler
    /\ pc' = "init"
    /\ UNCHANGED <<calc, session, bmi, bmi_category, meal_targets, auth_vars,
                 shared>>

NextText == DietOnText \/ FoodAlternatives \/ ReturnText

SpecText == Init /\ [][NextText]_vars

(***************************************************************************)
(* The operations on the files.  Each reads the whole file into a data     *)
(* frame (pd.read_csv), changes the frame and writes the whole frame back  *)
(* (to_csv); the source takes no lock.  A frame of users.csv or            *)
(* user_profiles.csv is a function from the user ids to their rows, a      *)
(* frame of meal_history.csv the sequence of its rows.  The operators give *)
(* the frame the operation ends with, whether it wrote it, and its result. *)
(***************************************************************************)
\* The frame with the row of user_id set: pd.concat of a new row, or
\* df.loc[df.user_id == user_id, ...] = ... of an existing one.
WithRow(df, user_id, row) ==
    [u \in DOMAIN df \cup {user_id} |-> IF u = user_id THEN row ELSE df[u]]

Ended(df, wrote, ret) == [df |-> df, wrote |-> wrote, ret |-> ret]

\* sent: what send_email returned.
register_user(df, user_id, sent) ==
    IF user_id \in DOMAIN df THEN Ended(df, FALSE, FALSE)
    ELSE Ended(WithRow(df, user_id, [password |-> "DEFAULT_PASSWORD", verified |-> FALSE,
                                     needs_password_change |-> TRUE]),
               TRUE, sent)

\* otp_matches: the text entered is the row's otp.
verify_otp(df, user_id, otp_matches) ==
    IF user_id \in DOMAIN df /\ otp_matches
    THEN Ended(WithRow(df, user_id, [df[user_id] EXCEPT !.verified = TRUE]), TRUE, TRUE)
    ELSE Ended(df, FALSE, FALSE)

check_login(df, user_id, password) ==
    IF user_id \notin DOMAIN df THEN "not_registered"
    ELSE IF ~df[user_id].verified THEN "not_verified"
    ELSE IF password # df[user_id].password THEN "wrong_password"
    ELSE IF df[user_id].needs_password_change THEN "change_required"
    ELSE "success"

\* The frame is written whether or not it holds a row of the user.
update_password(df, user_id, new_password) ==
    Ended(IF user_id \in DOMAIN df
          THEN WithRow(df, user_id, [df[user_id] EXCEPT !.password = new_password,
                                                       !.needs_password_change = FALSE])
          ELSE df,
          TRUE, TRUE)

\* The Forgot Password? button of the login form (the new otp is left out).
forgot_password(df, user_id, sent) ==
    IF user_id \in DOMAIN df
    THEN Ended(WithRow(df, user_id, [df[user_id] EXCEPT !.verified = FALSE,
                                                       !.needs_password_change = TRUE]),
               TRUE, sent)
    ELSE Ended(df, FALSE, FALSE)

\* save_user_profile on the frame of user_profiles.csv.
ProfileSaved(profile_df, user_id, daily_calories) ==
    Ended(WithRow(profile_df, user_id, save_user_profile(daily_calories)), TRUE, TRUE)

save_meal_feedback(history_df, user_id, rating) ==
    Ended(Append(history_df, [user_id |-> user_id, rating |-> rating]), TRUE, TRUE)

(***************************************************************************)
(* The state machine of two sessions of one process.  A session's thread   *)
(* runs its script; another session's thread can run between any two file  *)
(* accesses of it.                                                         *)
(***************************************************************************)
MaxHistory == 1

\* What a session's inputs can be.
Passwords         == {"DEFAULT_PASSWORD", "New-Passw0rd"}
Ratings           == {1, 5}
SessionCalories   == {DefaultFallback}
SessionConditions == {<<>>, <<"Diabetes", "Scurvy", "IBS">>}
SessionReplies    == {TextReply(<<"{", "plan", "}">>), TextReply(<<"[", "3 names", "]">>),
                      TextReply(Prose)}

\* Whether generate_medical_condition_diet gives a plan, and whether
\* get_food_alternatives gives a name, for the replies of the sessions.
SessionPlans ==
    {PyTruthy(generate_medical_condition_diet(ParseReply(reply)).ret) :
        reply \in SessionReplies}
SessionNames == {PyTruthy(get_food_alternatives(reply).ret) : reply \in SessionReplies}

\* The operations the page of the stage offers, and the file each reads.
StageOps(stage) ==
    CASE stage = "auth"     -> {"register_user", "forgot_password"}
      [] stage = "otp"      -> {"verify_otp"}
      [] stage = "password" -> {"update_password"}
      [] stage = "profile"  -> {"save_user_profile"}
      [] stage = "plan"     -> {"save_meal_feedback"}
      [] OTHER              -> {}

FileOf(op) ==
    CASE op = "save_user_profile"  -> USER_PROFILE_FILE
      [] op = "save_meal_feedback" -> MEAL_HISTORY_FILE
      [] OTHER                     -> USER_DB_FILE

\* The thread's frame is written to the file the operation read, or not.
Written(op, e) ==
    /\ USER_DB_FILE' =
          IF e.wrote /\ op \notin {"save_user_profile", "save_meal_feedback"}
          THEN e.df ELSE USER_DB_FILE
    /\ USER_PROFILE_FILE' =
          IF e.wrote /\ op = "save_user_profile" THEN e.df ELSE USER_PROFILE_FILE
    /\ MEAL_HISTORY_FILE' =
          IF e.wrote /\ op = "save_meal_feedback" THEN e.df ELSE MEAL_HISTORY_FILE

\* Session s's thread goes on to the page named stage.
Continues(s, stage, op, e) ==
    threads' = [threads EXCEPT ![s] = Idle(stage, op, e.df, e.wrote, e.ret)]

Private == <<response, result, handler, calc, session, pc, text_vars, bmi,
             bmi_category, meal_targets, auth_vars>>

\* pd.read_csv: the thread of s starts an operation of its page.
ReadCsv(s) ==
    /\ threads[s].pc = "idle"
    /\ \E op \in StageOps(threads[s].stage) :
          /\ op = "save_meal_feedback" => Len(MEAL_HISTORY_FILE) < MaxHistory
          /\ threads' = [threads EXCEPT ![s] =
                            [stage |-> @.stage, pc |-> "read", op |-> op,
                             df |-> FileOf(op), wrote |-> FALSE, ret |-> FALSE]]
    /\ UNCHANGED <<Private, files, MEDICAL_CONDITIONS, resets>>

\* What the operation that ended with e adds to the record r of its user's
\* password reset: the Forgot Password? button that wrote the row starts a
\* reset, a verify_otp that returned True and an update_password that wrote
\* the row are its two steps.
ResetStep(r, op, e) ==
    CASE op = "forgot_password" /\ e.wrote -> [asked |-> TRUE, done |-> {}]
      [] op = "verify_otp" /\ e.ret        -> [r EXCEPT !.done = @ \cup {op}]
      [] op = "update_password" /\ e.wrote -> [r EXCEPT !.done = @ \cup {op}]
      [] OTHER                             -> r

\* The rest of the operation: the thread of s ends it with e and goes on to
\* the page named stage.
Ends(s, op, e, stage) ==
    /\ Written(op, e)
    /\ Continues(s, stage, op, e)
    /\ resets' = [resets EXCEPT ![UserId(s)] = ResetStep(@, op, e)]
    /\ UNCHANGED <<Private, MEDICAL_CONDITIONS>>

Reading(s, op) == threads[s].pc = "read" /\ threads[s].op = op

RegisterUser(s) ==
    /\ Reading(s, "register_user")
    /\ \E sent \in BOOLEAN :
          Ends(s, "register_user", register_user(threads[s].df, UserId(s), sent),
               IF UserId(s) \notin DOMAIN threads[s].df /\ sent THEN "otp" ELSE "auth")

ForgotPassword(s) ==
    /\ Reading(s, "forgot_password")
    /\ \E sent \in BOOLEAN :
          Ends(s, "forgot_password", forgot_password(threads[s].df, UserId(s), sent),
               IF UserId(s) \in DOMAIN threads[s].df /\ sent THEN "otp" ELSE "auth")

VerifyOtp(s) ==
    /\ Reading(s, "verify_otp")
    /\ \E otp_matches \in BOOLEAN :
          Ends(s, "verify_otp", verify_otp(threads[s].df, UserId(s), otp_matches),
               IF UserId(s) \in DOMAIN threads[s].df /\ otp_matches
               THEN "password" ELSE "otp")

UpdatePassword(s) ==
    /\ Reading(s, "update_password")
    /\ Ends(s, "update_password",
            update_password(threads[s].df, UserId(s), "New-Passw0rd"), "auth")

\* The Login button: check_login, and load_user_profile when it succeeds.
Login(s) ==
    /\ threads[s].pc = "idle"
    /\ threads[s].stage = "auth"
    /\ \E password \in Passwords :
          LET status == check_login(USER_DB_FILE, UserId(s), password)
          IN  Continues(s,
                        CASE status = "not_verified"    -> "otp"
                          [] status = "change_required" -> "password"
                          [] status = "success" ->
                                IF UserId(s) \in DOMAIN USER_PROFILE_FILE
                                THEN "main" ELSE "profile"
                          [] OTHER -> "auth",
                        "check_login", Ended(EmptyFile, FALSE, status = "success"))
    /\ UNCHANGED <<Private, files, MEDICAL_CONDITIONS, resets>>

SaveUserProfile(s) ==
    /\ Reading(s, "save_user_profile")
    /\ \E daily_calories \in SessionCalories :
          Ends(s, "save_user_profile",
               ProfileSaved(threads[s].df, UserId(s), daily_calories), "main")

\* The Edit Profile button.
EditSession(s) ==
    /\ threads[s].pc = "idle"
    /\ threads[s].stage \in {"main", "plan"}
    /\ Continues(s, "profile", "edit", Ended(EmptyFile, FALSE, TRUE))
    /\ UNCHANGED <<Private, files, MEDICAL_CONDITIONS, resets>>

\* The call ended with the table as its loop left it.
Looked(s, stage, op, ret, conditions) ==
    /\ MEDICAL_CONDITIONS' = conditions.table
    /\ Continues(s, stage, op, Ended(EmptyFile, FALSE, ret))
    /\ UNCHANGED <<Private, files, resets>>

\* The Generate New Meal Plan button, when the user has a profile row; the
\* page shows the plan it got, or no plan when it got None.
SessionPlan(s) ==
    /\ threads[s].pc = "idle"
    /\ threads[s].stage \in {"main", "plan"}
    /\ UserId(s) \in DOMAIN USER_PROFILE_FILE
    /\ \E planned \in SessionPlans, medical_conditions \in SessionConditions :
          Looked(s, IF planned THEN "plan" ELSE "main",
                 "generate_comprehensive_meal_plan", planned,
                 ReadConditions(MEDICAL_CONDITIONS, medical_conditions))

\* A Find alternatives button of the displayed plan.
SessionAlternatives(s) ==
    /\ threads[s].pc = "idle"
    /\ threads[s].stage = "plan"
    /\ \E named \in SessionNames, medical_conditions \in SessionConditions :
          Looked(s, "plan", "get_food_alternatives", named,
                 ReadConditions(MEDICAL_CONDITIONS, medical_conditions))

\* The feedback form; the displayed plan is cleared after the feedback.
SaveMealFeedback(s) ==
    /\ Reading(s, "save_meal_feedback")
    /\ \E rating \in Ratings :
          Ends(s, "save_meal_feedback",
               save_meal_feedback(threads[s].df, UserId(s), rating), "main")

NextSessions ==
    \E s \in Sessions :
        \/ ReadCsv(s)
        \/ RegisterUser(s)
        \/ ForgotPassword(s)
        \/ VerifyOtp(s)
        \/ UpdatePassword(s)
        \/ Login(s)
        \/ SaveUserProfile(s)
        \/ EditSession(s)
        \/ SessionPlan(s)
        \/ SessionAlternatives(s)
        \/ SaveMealFeedback(s)

SpecSessions == Init /\ [][NextSessions]_vars

(***************************************************************************)
(* The state machine of the login page (show_auth_interface) of one        *)
(* session, and of the Logout button.  The page shows the login and the    *)
(* register form always, the OTP form while show_otp_verification and the  *)
(* password form while show_password_change; a script run handles the one  *)
(* form that was submitted.  Each operation on users.csv runs from its     *)
(* read to its write.                                                      *)
(***************************************************************************)
MaxAttempts == 3

\* What can be typed into an email field, and into a password field.
Emails         == {UserId(s) : s \in Sessions}
TypedEmails    == Emails \cup {""}
TypedPasswords == Passwords \cup {"", "password"}

\* The file after an operation that ended with e.
FileAfter(e) == IF e.wrote THEN e.df ELSE USER_DB_FILE

\* The record after an operation: the operation, the account it named and its
\* outcome, the accounts the session has proved to be its own so far (by
\* verify_otp, or by check_login answering change_required) and the accounts
\* whose password it has set.
Audited(op, user_id, status, proved, changed) ==
    [op |-> op, user_id |-> user_id, password |-> "", status |-> status,
     proved |-> audit.proved \cup proved, changed |-> audit.changed \cup changed]

AuthFrame ==
    <<response, result, handler, calc, profile, pc, text_vars, bmi, bmi_category, meal_targets,
      USER_PROFILE_FILE, MEAL_HISTORY_FILE, MEDICAL_CONDITIONS, threads, resets>>

\* LoginBranch that logs in on change_required too.
LoginBranch_early(ss, status, login_email) ==
    IF status \in {"success", "change_required"}
    THEN [ss EXCEPT !.logged_in = TRUE, !.user_id = login_email, !.login_attempts = 0]
    ELSE ss

\* The branch of the Login button for the result of check_login.
LoginBranch(ss, status, login_email) ==
    CASE status = "not_registered" -> [ss EXCEPT !.show_register = TRUE]
      [] status = "not_verified" ->
            [ss EXCEPT !.user_id = login_email, !.show_otp_verification = TRUE]
      [] status = "wrong_password" -> [ss EXCEPT !.login_attempts = @ + 1]
      [] status = "change_required" ->
            [ss EXCEPT !.user_id = login_email, !.show_password_change = TRUE]
      [] status = "success" ->
            [ss EXCEPT !.logged_in = TRUE, !.user_id = login_email, !.login_attempts = 0]
      [] OTHER -> ss

\* The Login button of the login form.
LoginForm ==
    /\ ~session_state.logged_in
    /\ \E login_email \in TypedEmails, password \in TypedPasswords :
          LET filled == login_email # "" /\ password # ""
              status == IF filled THEN check_login(USER_DB_FILE, login_email, password)
                        ELSE "empty"
          IN  /\ status = "wrong_password" => session_state.login_attempts < MaxAttempts
              /\ session_state' = LoginBranch(session_state, status, login_email)
              /\ profile_completed' =
                    IF status = "success" THEN login_email \in DOMAIN USER_PROFILE_FILE
                    ELSE profile_completed
              /\ audit' = [Audited("check_login", login_email, status,
                                   IF status = "change_required" THEN {login_email}
                                   ELSE {},
                                   {})
                           EXCEPT !.password = password]
    /\ UNCHANGED <<AuthFrame, USER_DB_FILE, current_meal_plan, generated_meal_count>>

\* The session after the Forgot Password? button, e being what the rewrite of
\* the row and send_email ended with.
ForgotBranch(ss, e, login_email) ==
    IF e.ret
    THEN [ss EXCEPT !.user_id = login_email, !.show_otp_verification = TRUE,
                    !.show_password_change = FALSE]
    ELSE ss

\* The Forgot Password? button of the login form.
ForgotForm ==
    /\ ~session_state.logged_in
    /\ \E login_email \in Emails, sent \in BOOLEAN :
          LET e == forgot_password(USER_DB_FILE, login_email, sent)
          IN  /\ USER_DB_FILE' = FileAfter(e)
              /\ session_state' = ForgotBranch(session_state, e, login_email)
              /\ audit' = Audited("forgot_password", login_email,
                                  IF e.wrote THEN "issued" ELSE "unknown", {}, {})
    /\ UNCHANGED <<AuthFrame, session>>

\* The Register button of the register form.
RegisterForm ==
    /\ ~session_state.logged_in
    /\ \E register_email \in Emails, sent \in BOOLEAN :
          LET e == register_user(USER_DB_FILE, register_email, sent)
          IN  /\ USER_DB_FILE' = FileAfter(e)
              /\ session_state' =
                    IF e.ret
                    THEN [session_state EXCEPT !.user_id = register_email,
                                               !.show_otp_verification = TRUE]
                    ELSE session_state
              /\ audit' = Audited("register_user", register_email,
                                  IF e.wrote THEN "registered" ELSE "refused", {}, {})
    /\ UNCHANGED <<AuthFrame, session>>

\* The Verify OTP button of the OTP form.
OtpForm ==
    /\ ~session_state.logged_in
    /\ session_state.show_otp_verification
    /\ \E otp_matches \in BOOLEAN :
          LET e == verify_otp(USER_DB_FILE, session_state.user_id, otp_matches)
          IN  /\ USER_DB_FILE' = FileAfter(e)
              /\ session_state' =
                    IF e.ret
                    THEN [session_state EXCEPT !.show_otp_verification = FALSE,
                                               !.show_password_change = TRUE]
                    ELSE session_state
              /\ audit' = Audited("verify_otp", session_state.user_id,
                                  IF e.ret THEN "verified" ELSE "invalid",
                                  IF e.ret THEN {session_state.user_id} ELSE {}, {})
    /\ UNCHANGED <<AuthFrame, session>>

\* The tests of the password form: both fields filled, not the temporary
\* password, the two equal, and strong enough.
Acceptable(new_password, confirm_password) ==
    /\ new_password # "" /\ confirm_password # ""
    /\ new_password # "DEFAULT_PASSWORD"
    /\ new_password = confirm_password
    /\ new_password = "New-Passw0rd"

\* The Set New Password button of the password form.
PasswordForm ==
    /\ ~session_state.logged_in
    /\ session_state.show_password_change
    /\ \E new_password \in TypedPasswords : \E confirm_password \in {new_password, ""} :
          LET e == update_password(USER_DB_FILE, session_state.user_id, new_password)
          IN  IF Acceptable(new_password, confirm_password)
              THEN /\ USER_DB_FILE' = FileAfter(e)
                   /\ session_state' =
                         [session_state EXCEPT !.show_password_change = FALSE,
                                               !.show_otp_verification = FALSE,
                                               !.logged_in = FALSE]
                   /\ audit' = Audited("update_password", session_state.user_id,
                                       "updated", {}, {session_state.user_id})
              ELSE /\ audit' = Audited("update_password", session_state.user_id,
                                       "refused", {}, {})
                   /\ UNCHANGED <<USER_DB_FILE, session_state>>
    /\ UNCHANGED <<AuthFrame, session>>

\* The profile form, shown to a logged-in user until a profile is saved.
ProfileForm ==
    /\ session_state.logged_in
    /\ ~profile_completed
    /\ \E daily_calories \in SessionCalories :
          USER_PROFILE_FILE' =
              ProfileSaved(USER_PROFILE_FILE, session_state.user_id, daily_calories).df
    /\ profile_completed' = TRUE
    /\ audit' = Audited("save_user_profile", session_state.user_id, "", {}, {})
    /\ UNCHANGED <<response, result, handler, calc, profile, pc, text_vars, bmi,
                   bmi_category, meal_targets, USER_DB_FILE, MEAL_HISTORY_FILE, MEDICAL_CONDITIONS,
                   threads, resets, session_state, current_meal_plan, generated_meal_count>>

\* The Logout button of the main page.
Logout ==
    /\ session_state.logged_in
    /\ profile_completed
    /\ session_state' = LoggedOut
    /\ profile_completed' = FALSE
    /\ current_meal_plan' = Null
    /\ generated_meal_count' = 0
    /\ audit' = Audited("logout", session_state.user_id, "", {}, {})
    /\ UNCHANGED <<AuthFrame, USER_DB_FILE>>

NextAuth ==
    \/ LoginForm \/ ForgotForm \/ RegisterForm
    \/ OtpForm \/ PasswordForm \/ ProfileForm \/ Logout

SpecAuth == Init /\ [][NextAuth]_vars

(***************************************************************************)
(* Properties of the validation (SpecValidate)                             *)
(***************************************************************************)
DietDone    == pc = "diet"
PlanMade    == DietDone /\ result # Null
IsPlanReply == DietDone /\ response.kind = "json" /\ response.val.t = "object"

HasKeys(v, keys) == v.t = "object" /\ Range(keys) \subseteq DOMAIN v.obj

\* The items of a meal that is an object with an items key.
ItemsOf(meal) == meal.obj["items"].elems

MealComplete(meal) ==
    /\ HasKeys(meal, meal_fields)
    /\ \A i \in DOMAIN ItemsOf(meal) : HasKeys(ItemsOf(meal)[i], required_fields)

Complete(plan) ==
    /\ HasKeys(plan, required_meals)
    /\ \A m \in Range(required_meals) : MealComplete(plan.obj[m])
    /\ "daily_summary" \in DOMAIN plan.obj
    /\ HasKeys(plan.obj["daily_summary"], summary_fields)

\* C1: the call returns None or a complete plan (four meals, each with items,
\* total_calories and meal_benefits, every item with its eight fields, the
\* summary with its six), and a reply that lacks a required key gives None.
C1_CompleteOrNone ==
    DietDone => /\ result = Null \/ Complete(result)
                /\ (response.kind = "json" /\ ~Complete(response.val)) => result = Null

\* A reply whose only flaw is an item without its calories key is refused.
C1_Witness ==
    /\ IsPlanReply
    /\ response.defects = {[lvl |-> "item", meal |-> "lunch", idx |-> 1,
                            field |-> "calories", mut |-> 0]}
    /\ result = Null
    /\ handler.clause = "ValueError"

\* The replies that are an object without one of the four meal keys.
LacksMeal == IsPlanReply /\ \E m \in Range(required_meals) : m \notin DOMAIN response.val.obj
MissingMeals == {m \in Range(required_meals) : m \notin DOMAIN response.val.obj}

\* C2 as claimed: a reply without one of the four meal keys fails with a schema
\* error whose reason names the missing meal key.
C2_NamesMissingMeal ==
    LacksMeal => /\ result = Null
                 /\ handler.clause = "ValueError"
                 /\ MissingMeals \cap handler.names # {}

\* C2 as amended: a reply without one of the four meal keys fails with a schema
\* error whose reason is the fixed text "Missing required meal types in AI
\* response", which names no meal; no plan is returned.
C2_MissingMealRefused ==
    LacksMeal => /\ result = Null
                 /\ handler.clause = "ValueError"
                 /\ handler.msg = "Missing required meal types in AI response"
                 /\ handler.names = {}

C2_Witness ==
    /\ LacksMeal
    /\ response.defects = {[lvl |-> "top", meal |-> "snacks", idx |-> 0,
                            field |-> "", mut |-> 0]}
    /\ result = Null

\* The places that hold numbers, and the replacements that are no number.
NumericPlace(d) ==
    \/ d.lvl = "item" /\ d.field \in Range(numeric_fields)
    \/ d.lvl = "meal" /\ d.field = "total_calories"
    \/ d.lvl = "summary" /\ d.field \in Range(summary_numeric)
NonNumeric(d) == d.mut > 0 /\ BadValues[d.mut] \in {StrV("N/A"), Null}

\* An otherwise valid reply with one numeric field that holds "N/A" or null.
CoercionCase ==
    /\ IsPlanReply
    /\ Cardinality(response.defects) = 1
    /\ \A d \in response.defects : NumericPlace(d) /\ NonNumeric(d)

\* The except clauses that report a parse failure, a schema failure and a
\* failure of the collaborator.
ParseClause        == generate_medical_condition_diet(Malformed).handler.clause
CollaboratorClause == generate_medical_condition_diet(Raises).handler.clause
SchemaClause ==
    generate_medical_condition_diet(
        PlanReply({[lvl |-> "top", meal |-> "snacks", idx |-> 0, field |-> "",
                    mut |-> 0]})).handler.clause

\* C3: a non-numeric value in a numeric field fails the validation with an
\* outcome of its own, none of those of a parse, schema or collaborator
\* failure, and no plan is returned.
C3_CoercionDistinct ==
    CoercionCase => /\ result = Null
                    /\ handler.clause \notin {ParseClause, SchemaClause, CollaboratorClause}

\* The one place where the reply of C4 departs from a valid one.
EmptyItemBenefits ==
    [lvl |-> "item", meal |-> "dinner", idx |-> 1, field |-> "benefits", mut |-> 3]

\* Equal as Python compares: numbers by their value, all else field by field.
SameValue(a, b) ==
    IF a.t \in {"int", "float"} /\ b.t \in {"int", "float"} THEN a.n = b.n ELSE a = b

SameFields(a, b, fields) ==
    \A f \in fields : SameValue(a.obj[f], b.obj[f])

\* Every field of plan a but the benefits of item i of meal m0 equals b's.
SameButBenefits(a, b, m0, i0) ==
    /\ SameFields(a.obj["daily_summary"], b.obj["daily_summary"], Range(summary_fields))
    /\ \A m \in Range(required_meals) :
         /\ SameFields(a.obj[m], b.obj[m], {"total_calories", "meal_benefits"})
         /\ Len(ItemsOf(a.obj[m])) = Len(ItemsOf(b.obj[m]))
         /\ \A i \in DOMAIN ItemsOf(a.obj[m]) :
              SameFields(ItemsOf(a.obj[m])[i], ItemsOf(b.obj[m])[i],
                         Range(required_fields) \ (IF m = m0 /\ i = i0 THEN {"benefits"} ELSE {}))

C4_Case == IsPlanReply /\ response.defects = {EmptyItemBenefits}

\* C4: a valid reply but for one item's empty benefits is accepted, that item's
\* benefits is the non-empty default, and every other field keeps its value.
C4_EmptyBenefitsDefaulted ==
    C4_Case =>
        /\ result # Null
        /\ Complete(result)
        /\ ItemsOf(result.obj["dinner"])[1].obj["benefits"] = DefaultItemBenefits
        /\ DefaultItemBenefits.s # ""
        /\ SameButBenefits(result, response.val, "dinner", 1)

C4_Witness == C4_Case /\ result # Null

\* The places that hold the three narrative texts, and the empty replacements.
TextPlace(d) ==
    \/ d.lvl = "item" /\ d.field = "benefits"
    \/ d.lvl = "meal" /\ d.field = "meal_benefits"
    \/ d.lvl = "summary" /\ d.field = "medical_compliance"
EmptyValue(d) == d.mut > 0 /\ ~PyTruthy(BadValues[d.mut])

NonEmptyText(v) == PyTruthy(v)

NarrativesNonEmpty(plan) ==
    /\ NonEmptyText(plan.obj["daily_summary"].obj["medical_compliance"])
    /\ \A m \in Range(required_meals) :
         /\ NonEmptyText(plan.obj[m].obj["meal_benefits"])
         /\ \A i \in DOMAIN ItemsOf(plan.obj[m]) :
              NonEmptyText(ItemsOf(plan.obj[m])[i].obj["benefits"])

\* A reply whose only flaws are empty narrative texts.
OnlyEmptyTexts ==
    /\ IsPlanReply
    /\ response.defects # {}
    /\ \A d \in response.defects : TextPlace(d) /\ EmptyValue(d)

\* C5: in a returned plan every benefits, meal_benefits and medical_compliance
\* is non-empty, and a reply whose only flaws are empty values of these is
\* accepted.
C5_NarrativesRepaired ==
    /\ PlanMade => NarrativesNonEmpty(result)
    /\ OnlyEmptyTexts => result # Null

C5_Witness ==
    /\ OnlyEmptyTexts
    /\ Cardinality(response.defects) = 2
    /\ \E d \in response.defects : d.lvl = "meal"
    /\ \E d \in response.defects : d.lvl = "summary"
    /\ result # Null

\* C6: in a returned plan each of the four meals has a non-empty sequence of
\* items.
C6_ItemsNonEmpty ==
    PlanMade => \A m \in Range(required_meals) :
                    /\ result.obj[m].obj["items"].t = "list"
                    /\ ItemsOf(result.obj[m]) # <<>>

Numeric(v) == v.t \in {"int", "float"}
NonNegative(v) == Numeric(v) /\ v.n >= 0

\* C7: in a returned plan every item's calories, protein, carbs, fats and fiber,
\* every meal's total_calories and every total of the summary is a
\* non-negative number.
C7_NumbersNonNegative ==
    PlanMade =>
        /\ \A f \in Range(summary_numeric) : NonNegative(result.obj["daily_summary"].obj[f])
        /\ \A m \in Range(required_meals) :
             /\ NonNegative(result.obj[m].obj["total_calories"])
             /\ \A i \in DOMAIN ItemsOf(result.obj[m]) :
                  \A f \in Range(numeric_fields) : NonNegative(ItemsOf(result.obj[m])[i].obj[f])

(***************************************************************************)
(* Properties of the calculator (SpecCalc)                                 *)
(***************************************************************************)
CalcDone == pc = "calc"

\* C10: calculate_daily_calories never returns less than 1200, whatever the age
\* of 18 to 99, the positive height and weight, the gender, the activity level
\* and the diet goal.
C10_AtLeast1200 == CalcDone => calc.value >= 1200

\* A call whose rounded sum of tdee and adjustment is below 1200.
C10_Witness ==
    /\ CalcDone
    /\ ~calc.failed
    /\ calc.value = 1200
    /\ CalculatedCalories(Bmr4(calc.age, Lower(calc.gender.s) = "male", calc.weight,
                               calc.height),
                          GetOr(activity_multipliers, Lower(calc.activity_level.s),
                                DefaultMultiplier),
                          GetOr(goal_adjustments, Lower(calc.diet_goal.s), 0)) < 1200

(***************************************************************************)
(* Properties of the plan generation (SpecPlan)                            *)
(***************************************************************************)
PlanDone == pc = "plan"

CoverageOf(meal_plan) == meal_plan.obj["coverage"]

\* The collaborator has answered the request of a profile the form saved with
\* exactly the request's per-meal targets and their sum.
RoundTripCase ==
    /\ PlanDone
    /\ profile.written_by = "save_user_profile"
    /\ response = RoundTripReply(GenerationRequest(profile))

\* C8 as stated: the round trip gives a coverage of 100.0.
C8_RoundTripExact ==
    RoundTripCase =>
        /\ current_meal_plan # Null
        /\ CoverageOf(current_meal_plan) = DecimalV(1000)

\* C8: the round trip gives a plan whose coverage is 100.0 when the four
\* targets sum to the daily target or the daily target is above 2000, is 99.9
\* when they sum to one less than a daily target below 2000, and is 100.1 when
\* they sum to one more.
C8_RoundTripWithinTenth ==
    RoundTripCase =>
        /\ current_meal_plan # Null
        /\ TargetSum(profile.daily_calories) - profile.daily_calories \in {-1, 0, 1}
        /\ CoverageOf(current_meal_plan) =
              DecimalV(IF profile.daily_calories > 2000 THEN 1000
                       ELSE 1000 + TargetSum(profile.daily_calories)
                                 - profile.daily_calories)

\* A round trip whose targets do not sum to the daily target.
C8_Witness ==
    /\ RoundTripCase
    /\ current_meal_plan # Null
    /\ TargetSum(profile.daily_calories) # profile.daily_calories
    /\ CoverageOf(current_meal_plan) # DecimalV(1000)

\* C9: when the collaborator's reply passes validation, a plan is stored whose
\* coverage is the summary's total_calories over the target times 100 rounded
\* to one decimal place (no tenth is nearer to the quotient) if the target is
\* above 0, and the integer 0 if the target is 0 or less.
C9_CoverageFormula ==
    (PlanDone /\ result # Null) =>
        /\ current_meal_plan # Null
        /\ IF profile.daily_calories > 0
           THEN /\ CoverageOf(current_meal_plan).t = "float1"
                /\ 2 * Abs(CoverageOf(current_meal_plan).n * profile.daily_calories
                           - 1000 * TotalCaloriesGenerated(result))
                   <= profile.daily_calories
           ELSE CoverageOf(current_meal_plan) = IntV(0)

\* A plan whose quotient is not a whole number of tenths, so that the rounding acts.
C9_Witness ==
    /\ PlanDone
    /\ result # Null
    /\ current_meal_plan # Null
    /\ profile.daily_calories > 0
    /\ (1000 * TotalCaloriesGenerated(result)) % profile.daily_calories # 0
    /\ CoverageOf(current_meal_plan).n # 0

\* A plan made for a target of 0 or less.
C9_ZeroTarget ==
    /\ PlanDone
    /\ result # Null
    /\ profile.daily_calories <= 0
    /\ current_meal_plan # Null
    /\ CoverageOf(current_meal_plan) = IntV(0)

(***************************************************************************)
(* Properties of the operations on a reply's text (SpecText)               *)
(***************************************************************************)
DietTextDone     == pc = "diet_text"
AlternativesDone == pc = "alternatives"

\* The first reply, taken by itself, gives no plan.
FirstReplyFails ==
    generate_medical_condition_diet(ParseReply(collaborator[1])).ret = Null

Fenced(text) ==
    { FenceJson \o <<"\n">> \o text \o <<"\n">> \o Fence,
      FenceJson \o text \o Fence,
      Fence \o <<"\n">> \o text \o <<"\n">> \o Fence,
      Fence \o <<"j", "s", "\n">> \o text \o <<"\n">> \o Fence,
      Fence \o <<"J", "S", "O", "N", "\n">> \o text \o <<"\n">> \o Fence }

\* What the call that ran returned.
Returned12 == IF DietTextDone THEN result ELSE alternatives

\* What the same call returns for the reply r.
ReturnsFor(r) ==
    IF DietTextDone THEN generate_medical_condition_diet(ParseReply(r)).ret
    ELSE get_food_alternatives(r).ret

\* C12: a document in a fenced block, whatever the language tag, gives what
\* the document gives unwrapped, and an unwrapped document is loaded as it is.
C12_FenceOrNot ==
    (DietTextDone \/ AlternativesDone) =>
        \A d \in Documents :
            /\ collaborator[1] \in {TextReply(w) : w \in Fenced(d.text)}
                  => Returned12 = ReturnsFor(TextReply(d.text))
            /\ collaborator[1] = TextReply(d.text)
                  => LoadResponse(d.text) = Ok(d.val)

\* A reply that is a JSON object, not an array.
ObjectReply == TextReply(<<"{", "alternatives: 3 names", "}">>)

\* The first reply gives get_food_alternatives no array.
NoArray ==
    \/ collaborator[1].raises
    \/ Failed(LoadResponse(collaborator[1].text))
    \/ LoadResponse(collaborator[1].text).val.t # "list"

C14_AtMostThreeTexts ==
    AlternativesDone =>
        /\ alternatives.t = "list"
        /\ Len(alternatives.elems) <= 3
        /\ \A i \in DOMAIN alternatives.elems : alternatives.elems[i].t = "str"

\* The call of calculate_daily_calories got three texts.
CalcTexts ==
    /\ pc = "calc"
    /\ calc.gender.t = "str" /\ calc.activity_level.t = "str" /\ calc.diet_goal.t = "str"

\* The stated value for the call: at least 1200, and above 1200 only an
\* integer nearest to BMR x multiplier + adjustment, the multiplier in
\* thousandths.
StatedCalories(multiplier, adjustment) ==
    LET bmr4  == 40 * calc.weight + 25 * calc.height - 20 * calc.age
                 + (IF Lower(calc.gender.s) = "male" THEN 20 ELSE -644)
        exact == bmr4 * multiplier + 4000 * adjustment
    IN  /\ ~calc.failed
        /\ calc.value >= 1200
        /\ calc.value > 1200 => 2 * Abs(4000 * calc.value - exact) <= 4000
        /\ calc.value = 1200 => 2 * (exact - 4000 * 1200) <= 4000

\* The statement for the level named very and the goals named loss, gain,
\* muscle and maintain.
StatedFor(very, loss, gain, muscle, maintain) ==
    LET a == Lower(calc.activity_level.s)
        d == Lower(calc.diet_goal.s)
    IN  (/\ CalcTexts
         /\ a \in {"sedentary", "light", "moderate", "active", very}
         /\ d \in {loss, gain, muscle, maintain})
        => StatedCalories(
               CASE a = "sedentary" -> 1200 [] a = "light" -> 1375
                 [] a = "moderate" -> 1550  [] a = "active" -> 1725 [] OTHER -> 1900,
               CASE d = loss -> -500 [] d = gain -> 500 [] d = muscle -> 300
                 [] OTHER -> 0)

\* C19 as stated: the value is max(1200, round(BMR x multiplier + adjustment))
\* with the multipliers 1.2, 1.375, 1.55, 1.725, 1.9 for sedentary, light,
\* moderate, active, very_active and the adjustments -500, +500, +300, 0 for
\* weight_loss, weight_gain, muscle_gain, maintain.
C19_AsStated ==
    StatedFor("very_active", "weight_loss", "weight_gain", "muscle_gain", "maintain")

\* C19: the same with the texts the function recognizes, compared in lower
\* case: very active, weight loss, weight gain, muscle gain, maintain weight.
C19_Recognized ==
    StatedFor("very active", "weight loss", "weight gain", "muscle gain",
              "maintain weight")

C19_Witness ==
    /\ CalcTexts
    /\ calc.gender = StrV("Male")
    /\ calc.activity_level = StrV("Very Active")
    /\ calc.diet_goal = StrV("Weight Loss")
    /\ calc.age = MinAge /\ calc.weight = MaxWeight /\ calc.height = MaxHeight
    /\ calc.value = 6107

\* The value of the call with the level and the goal replaced.
WithLevelAndGoal(activity_level, diet_goal) ==
    calculate_daily_calories(calc.age, calc.gender, calc.weight, calc.height,
                             activity_level, diet_goal)

\* C20: a level that is none of the five gives the value of the moderate
\* level, a goal that is none of the four gives the value of the maintain goal,
\* and no error is reported.
C20_LenientDefaults ==
    CalcTexts =>
        /\ Lower(calc.activity_level.s) \notin DOMAIN activity_multipliers
             => /\ calc.value = WithLevelAndGoal(StrV("Moderate"), calc.diet_goal).value
                /\ ~calc.failed
        /\ Lower(calc.diet_goal.s) \notin DOMAIN goal_adjustments
             => /\ calc.value
                     = WithLevelAndGoal(calc.activity_level, StrV("Maintain Weight")).value
                /\ ~calc.failed

C20_Witness ==
    /\ CalcTexts
    /\ calc.activity_level = StrV("Unknown")
    /\ calc.diet_goal = StrV("Keto")
    /\ calc.gender = StrV("Female")
    /\ calc.age = MinAge /\ calc.weight = MaxWeight /\ calc.height = MaxHeight
    /\ calc.value = 5133
    /\ ~calc.failed

\* C16: calculate_bmi returns 0 with a warning when the weight or the height
\* is 0 or less, and for positive numbers a tenth nearest to the weight over
\* the square of the height in metres, with nothing reported.
C16_BmiOrSentinel ==
    (pc = "bmi" /\ bmi.weight.t = "int" /\ bmi.height.t = "int") =>
        IF bmi.weight.n <= 0 \/ bmi.height.n <= 0
        THEN bmi.value = 0 /\ bmi.report = "warning"
        ELSE /\ bmi.report = "none"
             /\ 2 * Abs(bmi.value * bmi.height.n * bmi.height.n - 100000 * bmi.weight.n)
                    <= bmi.height.n * bmi.height.n

C16_Witness ==
    /\ pc = "bmi"
    /\ bmi = [weight |-> IntV(70), height |-> IntV(175), value |-> 229, report |-> "none"]

\* A plan was generated for the profile and is displayed.
PlanDisplayed == pc = "plan" /\ profile.exists /\ PyTruthy(current_meal_plan)

HasWritten(s) == threads[s].pc = "idle" /\ threads[s].wrote

\* The rows of s's user are in the file as s's thread last wrote them.
OwnRowsKept(s) ==
    LET df == threads[s].df
        u  == UserId(s)
        Own(row) == row.user_id = u
    IN  CASE threads[s].op = "save_meal_feedback" ->
                SelectSeq(MEAL_HISTORY_FILE, Own) = SelectSeq(df, Own)
          [] threads[s].op = "save_user_profile" ->
                u \in DOMAIN USER_PROFILE_FILE /\ USER_PROFILE_FILE[u] = df[u]
          [] OTHER ->
                u \in DOMAIN df => (u \in DOMAIN USER_DB_FILE /\ USER_DB_FILE[u] = df[u])

\* C15: no write of a session is lost: while a session that rewrote a file
\* starts nothing else, the file holds its user's rows as it wrote them,
\* whatever the other session does.
C15_NoWriteLost == \A s \in Sessions : HasWritten(s) => OwnRowsKept(s)

\* The step is a plan generation or an alternatives lookup of session s.
ValidatesReply(s) ==
    /\ threads'[s] # threads[s]
    /\ threads'[s].pc = "idle"
    /\ threads'[s].op \in {"generate_comprehensive_meal_plan", "get_food_alternatives"}

\* C18: MEDICAL_CONDITIONS keeps its initial contents through every operation
\* of every session, and a session's plan generation or alternatives lookup
\* changes neither a file nor the other session's state.
C18_TableNeverModified ==
    /\ [](MEDICAL_CONDITIONS = ConditionsTable)
    /\ [][\A s \in Sessions :
            ValidatesReply(s) =>
                /\ UNCHANGED files
                /\ \A o \in Sessions \ {s} : threads'[o] = threads[o]]_vars

C18_Witness ==
    /\ threads[1].op = "generate_comprehensive_meal_plan"
    /\ threads[1].stage = "plan"
    /\ threads[2].op = "get_food_alternatives"
    /\ MEAL_HISTORY_FILE # EmptyFile
    /\ MEDICAL_CONDITIONS = ConditionsTable

\* The call of calculate_daily_calories got a gender, an activity level or a
\* diet goal that is no text, so that its .lower() raises.
CalcRaised ==
    /\ pc = "calc"
    /\ \/ calc.gender.t # "str"
       \/ calc.activity_level.t # "str"
       \/ calc.diet_goal.t # "str"

\* C21: when the computation inside calculate_daily_calories raises, the
\* except clause is taken and the function returns exactly 2000; the except
\* clause is taken in no other call.
C21_FailsSoft ==
    /\ CalcRaised => (calc.failed /\ calc.value = DefaultFallback)
    /\ (pc = "calc" /\ calc.failed) => CalcRaised

\* The activity level is None while the gender and the goal are texts of the
\* form, with numbers for which the try block would have given another value.
C21_Witness ==
    /\ pc = "calc"
    /\ calc.gender = StrV("Male")
    /\ calc.activity_level = Null
    /\ calc.diet_goal = StrV("Weight Loss")
    /\ calc.age = MinAge /\ calc.weight = MaxWeight /\ calc.height = MaxHeight
    /\ calc.failed
    /\ calc.value = 2000

\* get_bmi_category returned the label of a value.
CategoryDone == pc = "category"

\* C22: for every BMI with one decimal, the label is Underweight exactly when
\* BMI < 18.5, Normal weight exactly when 18.5 <= BMI < 24.9, Overweight
\* exactly when 25 <= BMI < 29.9, and Obese exactly when BMI >= 29.9.
C22_CategoryRanges ==
    CategoryDone =>
        /\ bmi_category.label = "Underweight" <=> bmi_category.bmi < 185
        /\ bmi_category.label = "Normal weight"
             <=> (185 <= bmi_category.bmi /\ bmi_category.bmi < 249)
        /\ bmi_category.label = "Overweight"
             <=> (250 <= bmi_category.bmi /\ bmi_category.bmi < 299)
        /\ bmi_category.label = "Obese" <=> bmi_category.bmi >= 299

\* The reply departs from the well-formed plan only in numbers: each defect
\* replaces the value of a numeric field by a value float() converts, so
\* every key is present and every conversion succeeds, while a total need no
\* longer be the sum of its parts.
PassesChecks ==
    /\ IsPlanReply
    /\ \A d \in response.defects :
          /\ NumericPlace(d)
          /\ d.mut > 0
          /\ ~Failed(PyFloat(BadValues[d.mut]))

\* The value of a declared number, converted by float().
Declared(v) == PyFloat(v).val

\* C23: a reply that passes the presence and coercion checks is accepted
\* whether or not its totals are the sums of their parts, and the totals of
\* the returned plan are the reply's declared totals converted by float().
C23_TotalsAtFaceValue ==
    PassesChecks =>
        /\ result # Null
        /\ \A m \in Range(required_meals) :
              result.obj[m].obj["total_calories"]
                  = Declared(response.val.obj[m].obj["total_calories"])
        /\ \A f \in Range(summary_numeric) :
              result.obj["daily_summary"].obj[f]
                  = Declared(response.val.obj["daily_summary"].obj[f])

\* Breakfast declares 150 calories for an item of 101, and the summary
\* declares -5 calories for meals that declare 150 + 201 + 301 + 401.
C23_Witness ==
    /\ PassesChecks
    /\ result # Null
    /\ response.val.obj["breakfast"].obj["total_calories"] = StrV("150")
    /\ result.obj["breakfast"].obj["total_calories"] = FloatV(150)
    /\ ItemsOf(result.obj["breakfast"])[1].obj["calories"] = FloatV(101)
    /\ response.val.obj["daily_summary"].obj["total_calories"] = IntV(-5)
    /\ result.obj["daily_summary"].obj["total_calories"] = FloatV(-5)

(***************************************************************************)
(* Properties of the prompt's section on the conditions (SpecText)         *)
(***************************************************************************)
RECURSIVE SplitLines(_)
\* text.split("\n")
SplitLines(text) ==
    IF \A i \in DOMAIN text : text[i] # "\n" THEN <<text>>
    ELSE LET n == CHOOSE i \in DOMAIN text :
                      text[i] = "\n" /\ \A j \in 1 .. (i - 1) : text[j] # "\n"
         IN  <<SubSeq(text, 1, n - 1)>> \o SplitLines(SubSeq(text, n + 1, Len(text)))

\* The supplied ids that are keys of the table, in the order supplied.
KnownIds == SelectSeq(prompt.medical_conditions, LAMBDA c : c \in DOMAIN ConditionsTable)

\* The line is the entry of condition c: it starts with the id and names the
\* foods to avoid, and in a plan request the description and the foods to
\* recommend as well.
EntryOf(line, c, plan_request) ==
    /\ line # <<>>
    /\ line[1] = c
    /\ Range(ConditionsTable[c].avoid) \subseteq Range(line)
    /\ plan_request =>
          /\ ConditionsTable[c].description \in Range(line)
          /\ Range(ConditionsTable[c].recommend) \subseteq Range(line)
    /\ \A d \in DOMAIN ConditionsTable : (d # c) => (d \notin Range(line))

\* C24: the section on the conditions of a plan request and of an
\* alternatives request holds one entry for every supplied id that is a key
\* of MEDICAL_CONDITIONS, in the order supplied, and none for another id; an
\* unknown id is no error, and with no known id the section is the fixed text.
C24_KnownConditionsInOrder ==
    (pc \in {"diet_text", "alternatives"}) =>
        IF KnownIds = <<>>
        THEN prompt.section = IF pc = "diet_text"
                              THEN <<"No specific medical conditions">>
                              ELSE <<"No specific restrictions">>
        ELSE /\ Len(SplitLines(prompt.section)) = Len(KnownIds)
             /\ \A i \in DOMAIN KnownIds :
                   EntryOf(SplitLines(prompt.section)[i], KnownIds[i], pc = "diet_text")

\* A plan request for Diabetes, an id the table lacks, and IBS.
C24_Witness ==
    /\ pc = "diet_text"
    /\ prompt.medical_conditions = <<"Diabetes", "Scurvy", "IBS">>
    /\ Len(SplitLines(prompt.section)) = 2
    /\ SplitLines(prompt.section)[1][1] = "Diabetes"
    /\ SplitLines(prompt.section)[2][1] = "IBS"
    /\ "sugar" \in Range(SplitLines(prompt.section)[1])

(***************************************************************************)
(* Properties of the login page (SpecAuth)                                 *)
(***************************************************************************)
\* C25: a session changes the password only of an account that it has proved
\* to be its own before, by verify_otp or by a check_login that answered
\* change_required.
C25_OnlyProvedAccounts == audit.changed \subseteq audit.proved

\* The step logs the session in.
LogsIn == ~session_state.logged_in /\ session_state'.logged_in

\* The check_login of the step answered success for the user the session
\* becomes, whose row was verified, held the password typed and needed no
\* password change.
BySuccess ==
    /\ audit'.op = "check_login" /\ audit'.status = "success"
    /\ audit'.user_id = session_state'.user_id
    /\ audit'.user_id \in DOMAIN USER_DB_FILE
    /\ USER_DB_FILE[audit'.user_id].verified
    /\ USER_DB_FILE[audit'.user_id].password = audit'.password
    /\ ~USER_DB_FILE[audit'.user_id].needs_password_change

StaysUser ==
    (session_state.logged_in /\ session_state'.logged_in)
        => session_state'.user_id = session_state.user_id

\* C26: a session is logged in only as a registered user, it becomes logged in
\* only by a check_login that answered success for that user, whose row was
\* verified, held the password typed and needed no password change, it stays
\* that user while logged in, and it is logged out after Logout and after a
\* completed password change.
C26_LoggedInBySuccess ==
    /\ [](session_state.logged_in => session_state.user_id \in DOMAIN USER_DB_FILE)
    /\ []((audit.op = "logout" \/ (audit.op = "update_password" /\ audit.status = "updated"))
            => ~session_state.logged_in)
    /\ [][(LogsIn => BySuccess) /\ StaysUser]_vars

\* The user of the second address is logged in after a password change and a
\* login with the new password.
C26_Witness ==
    /\ session_state.logged_in
    /\ session_state.user_id = "two@example.com"
    /\ audit.op = "check_login"
    /\ audit.status = "success"
    /\ audit.password = "New-Passw0rd"
    /\ "two@example.com" \in audit.changed

(***************************************************************************)
(* Properties of a password reset, for two sessions with one user each.    *)
(***************************************************************************)
\* The last operation of session s was a check_login that returned success.
LoggedIn(s) == threads[s].op = "check_login" /\ threads[s].ret

\* C27: once the Forgot Password? button has written the row of a registered
\* user, check_login returns success for that user only after verify_otp has
\* succeeded and update_password has been applied, whether or not the mail
\* with the new OTP was sent.
C27_NoLoginBeforeReset ==
    \A s \in Sessions :
        LoggedIn(s) /\ resets[UserId(s)].asked =>
            resets[UserId(s)].done = {"verify_otp", "update_password"}

(***************************************************************************)
(* Properties of the stored plan and of the count of generations           *)
(***************************************************************************)
\* The step is a press of Generate New Meal Plan.
Generates == pc' = "plan"

\* generate_medical_condition_diet gave a plan in the step.
Succeeds == result' # Null

\* C28: the stored plan is None or a complete validated plan with the coverage
\* and the metadata keys; a generation that fails leaves None stored, whatever
\* was stored before; generated_meal_count grows by exactly 1 in a generation
\* that succeeds and keeps its value in every other step.
StoredPlanSound ==
    \/ current_meal_plan = Null
    \/ Complete(current_meal_plan) /\ HasKeys(current_meal_plan, metadata_keys)

GenerationStep ==
    IF Generates /\ Succeeds
    THEN /\ current_meal_plan' # Null
         /\ generated_meal_count' = generated_meal_count + 1
    ELSE /\ Generates => current_meal_plan' = Null
         /\ generated_meal_count' = generated_meal_count

C28_StoredPlanAndCount == []StoredPlanSound /\ [][GenerationStep]_vars

\* A generation failed after one that succeeded: nothing is stored and the
\* count is still 1.
C28_Witness ==
    /\ pc = "plan"
    /\ result = Null
    /\ current_meal_plan = Null
    /\ generated_meal_count = 1

(***************************************************************************)
(* Properties of the four rounded targets (SpecCalc)                       *)
(***************************************************************************)
TargetsDone == pc = "targets"

\* The sum of the four targets as the prompt prints them.
SumOfTargets ==
    meal_targets.targets["breakfast"] + meal_targets.targets["lunch"]
    + meal_targets.targets["dinner"] + meal_targets.targets["snacks"]

\* C29: for every whole daily target of at least 1200 the four rounded targets
\* sum to the daily target, to one less or to one more.
C29_SumWithinOne ==
    (TargetsDone /\ meal_targets.daily_calories >= 1200) =>
        SumOfTargets - meal_targets.daily_calories \in {-1, 0, 1}

\* A daily target whose rounded targets sum to one less.
C29_Witness ==
    /\ TargetsDone
    /\ meal_targets.daily_calories >= 1200
    /\ SumOfTargets = meal_targets.daily_calories - 1

(***************************************************************************)
(* Properties of the rows save_user_profile writes (SpecPlan)              *)
(***************************************************************************)
\* The session's row was written by save_user_profile.
SavedRow == profile.exists /\ profile.written_by = "save_user_profile"

\* C30: a row written by save_user_profile holds daily_calories of at least
\* 1200, and a plan generated from such a row has a target above 0 and the
\* rounded quotient as its coverage, never the 0 of the other branch.
C30_SavedTargetPositive ==
    SavedRow =>
        /\ profile.daily_calories >= 1200
        /\ (PlanDone /\ result # Null) =>
              /\ current_meal_plan # Null
              /\ current_meal_plan.obj["daily_target_calories"].n > 0
              /\ CoverageOf(current_meal_plan).t = "float1"

\* A plan generated from a saved row whose calories the floor of 1200 set.
C30_Witness ==
    /\ SavedRow
    /\ profile.daily_calories = 1200
    /\ PlanDone
    /\ result # Null
    /\ current_meal_plan # Null
    /\ CoverageOf(current_meal_plan).t = "float1"

====
